---- MODULE Spec2Model ----
(***************************************************************************)
(* Verification model of lunartlk.                                         *)
(*                                                                         *)
(*   SpecServe  : the lazy engine loaders of cmd/lunartlk-server/main.go   *)
(*                (lazyMoonshine, lazyParakeet, parakeetTranscriber,       *)
(*                moonshineTranscriber) driven by concurrent requests.     *)
(*   SpecDecode : the greedy TDT decode loop of the parakeet package       *)
(*                (Model.Transcribe / Model.decodeTDT).                    *)
(*   SpecArgmax, SpecTwin : argmax and two decodeTDT runs side by side.    *)
(*   SpecCodec  : StreamEncoder and DecodeOpus of internal/audio/opus.go.  *)
(*   SpecOgg, SpecLacing : the Ogg writer of internal/audio/ogg.go.        *)
(*   SpecWav    : package wav (Encode, Decode, pcmToFloat32).              *)
(*   SpecHandler: handleTranscribe and /health of the server.              *)
(*   SpecClient : lunartlk-client main, from the backup to its exit.       *)
(*   SpecServeFair : SpecServe with each request's next step weakly fair.  *)
(*   SpecShared : one recording encoded by goroutines sharing an encoder.  *)
(*   SpecRecorder, SpecContinuous, SpecContinuousFair : client/recorder.go *)
(*                (Start/Stop cycles; StartContinuous/StopContinuous).     *)
(***************************************************************************)
EXTENDS Integers, Sequences, FiniteSets, TLC

VARIABLES
    \* ---- serving layer -------------------------------------------------
    pc,        \* pc[r]     : position of request goroutine r
    slot,      \* slot[r]   : the lazy loader the request was routed to
    lmu,       \* lmu[m]    : holder of lazy loader mutex m (0 = unlocked)
    loaded,    \* loaded[s] : l.loaded of loader s (NoHandle = nil)
    hmu,       \* hmu[h]    : holder of parakeetTranscriber.mu of handle h
    t,         \* t[r]      : local variable t of the lazy Transcribe
    result,    \* result[r] : what the lazy Transcribe returned to the caller
    preFail,   \* preFail[r]: the ignored EnsureModel(ParakeetPreprocessor) failed
    firstUse,  \* firstUse[r]: r arrived while its slot was still unpopulated
    starts,    \* starts[s] : population sequences started on s
    fails,     \* fails[s]  : population sequences that returned an error
    stores,    \* stores[s] : assignments made to l.loaded
    stepFail,  \* stepFail[s]: provisioning/load steps of s that failed
    \* ---- decode engine (one decodeTDT call) ----------------------------
    dpc,       \* position inside decodeTDT
    encodedLen,\* parameter encodedLen (L)
    blankIdx,  \* m.blankIdx
    tpos,      \* local t
    tokens,    \* local tokens
    decOut,    \* local decOut
    states,    \* locals states1, states2 (always copied together)
    newS,      \* locals newS1, newS2
    bestToken, \* local bestToken of the current step
    durIdx,    \* duration argmax index of the current step (before the clamp)
    skip,      \* local skip of the current step
    steps,     \* loop iterations entered (= joint calls issued)
    calls,     \* every backend call issued so far, in order
    ret,       \* what decodeTDT returned
    \* ---- the two argmax loops of a decode step, on their own -----------
    amPc,      \* "input" before the loops ran, "done" after
    amLogits,  \* the logits vector returned by the joiner
    amTok,     \* bestToken computed from amLogits
    amDur,     \* skip computed from amLogits, before the clamp
    \* ---- two decodeTDT calls on the same encoder output ----------------
    tw,        \* run -> the locals of that decodeTDT call
    twLen,     \* encodedLen, the same for both runs
    twBlank,   \* m.blankIdx, the same for both runs
    memoP,     \* prediction network: asked inputs -> the answer given
    memoJ,     \* joiner: asked inputs -> the answer given
    \* ---- StreamEncoder and DecodeOpus ----------------------------------
    encLen,    \* the codec: byte length of odd and of even numbered frames
    buf,       \* s.buf: samples waiting for a full frame
    out,       \* s.out: the length-prefixed wire stream, as bytes
    frames,    \* s.frames: the raw frames kept for the container
    pcmLog,    \* ghost: the 320 samples handed to the encoder, per frame
    hist,      \* ghost: the Write and Flush calls made so far
    fed,       \* ghost: number of samples passed to Write so far
    dec,       \* the DecodeOpus call made on the stream, if any
    \* ---- OggOpus -------------------------------------------------------
    ogPc,        \* position in OggOpus: "head", "tags", "loop", "done"
    opusFrames,  \* the frames to wrap
    ogI,         \* frames taken by the loop so far
    pageFrames,  \* frames collected for the next data page
    granulePos,  \* samples up to and including the last frame taken
    pageSeq,     \* sequence number of the next data page
    oggPages,    \* the pages written to the output so far, as bytes
    oggUpload,   \* DecodeOpus of the container, once it was uploaded
    \* ---- package wav: Encode and Decode --------------------------------
    wavPc,       \* "encode", "decode", "walk", "done", "converted"
    wavIn,       \* the samples given to Encode
    wavData,     \* the bytes given to Decode
    wavShape,    \* ghost: how wavData was put together
    wavOff,      \* Decode: local offset
    wavFmt,      \* Decode: foundFmt and the fields read from the fmt chunk
    wavRet,      \* what Decode returned
    wavPcm16,    \* out of float32ToInt16
    \* ---- one HTTP request to the server ---------------------------------
    hPc,         \* position in the handler
    hReq,        \* the request: path, method, header, query, upload
    hSrv,        \* serverInfo: token, registered engines, defaults
    hStatus,     \* the status code answered (0: none yet)
    hT,          \* local t: the transcriber chosen
    hAudio,      \* what the upload decoder returned
    hTrace,      \* ghost: upload reads, decoder and engine calls made
    \* ---- one run of lunartlk-client, after the recording was encoded ----
    cPc,         \* position in main
    cFlags,      \* -save-wav given, -no-save, -clipboard
    cFiles,      \* the files of the run: what each holds
    cSend,       \* what sendToServer returned
    cLog,        \* ghost: file operations, requests and messages, in order
    cExit,       \* exit status (-1: still running)
    \* ---- goroutines sharing one StreamEncoder ---------------------------
    smu,         \* s.mu: the goroutine holding it, 0 when free
    spc,         \* per goroutine: position in the method it called
    sop,         \* per goroutine: the call, calls made, local frame
    snaps,       \* what Bytes and OggBytes returned, in order
    \* ---- Recorder -------------------------------------------------------
    recorded,    \* r.recorded, as chunks
    rmu,         \* r.mu: the set holding its owner, empty when free
    rDone,       \* r.done: the channel it holds
    rStopped,    \* r.stopped: the channel it holds
    rMade,       \* number of stop channels made so far
    rClosed,     \* the stop channels closed so far
    rReads,      \* successful stream reads so far
    rStreamOn,   \* the stream is started
    rGo,         \* the capture goroutines started so far
    rMain,       \* the caller of Start and Stop: position and locals
    rRet,        \* what each Stop returned
    rCh,         \* the segment channel of StartContinuous
    rRecv,       \* the consumer of the segment channel
    rCfg         \* sampleRate, chunkSize, segment duration

serveVars == <<pc, slot, lmu, loaded, hmu, t, result, preFail, firstUse,
               starts, fails, stores, stepFail>>

decodeVars == <<dpc, encodedLen, blankIdx, tpos, tokens, decOut, states, newS,
                bestToken, durIdx, skip, steps, calls, ret>>

argmaxVars == <<amPc, amLogits, amTok, amDur>>

twinVars == <<tw, twLen, twBlank, memoP, memoJ>>

codecVars == <<encLen, buf, out, frames, pcmLog, hist, fed, dec>>

oggVars == <<ogPc, opusFrames, ogI, pageFrames, granulePos, pageSeq, oggPages,
             oggUpload>>

wavVars == <<wavPc, wavIn, wavData, wavShape, wavOff, wavFmt, wavRet, wavPcm16>>

handlerVars == <<hPc, hReq, hSrv, hStatus, hT, hAudio, hTrace>>

clientVars == <<cPc, cFlags, cFiles, cSend, cLog, cExit>>

sessVars == <<smu, spc, sop, snaps>>

recVars == <<recorded, rmu, rDone, rStopped, rMade, rClosed, rReads, rStreamOn,
             rGo, rMain, rRet, rCh, rRecv, rCfg>>

\* What the actions of one component leave alone.
notServe == <<decodeVars, argmaxVars, twinVars, codecVars, oggVars, wavVars,
              handlerVars, clientVars,
    sessVars, recVars>>

notDecode == <<serveVars, argmaxVars, twinVars, codecVars, oggVars, wavVars,
               handlerVars, clientVars,
    sessVars, recVars>>

notArgmax == <<serveVars, decodeVars, twinVars, codecVars, oggVars, wavVars,
               handlerVars, clientVars,
    sessVars, recVars>>

notTwin == <<serveVars, decodeVars, argmaxVars, codecVars, oggVars, wavVars,
             handlerVars, clientVars,
    sessVars, recVars>>

notCodec == <<serveVars, decodeVars, argmaxVars, twinVars, oggVars, wavVars,
              handlerVars, clientVars,
    sessVars, recVars>>

notOgg == <<serveVars, decodeVars, argmaxVars, twinVars, codecVars, wavVars,
            handlerVars, clientVars,
    sessVars, recVars>>

notWav == <<serveVars, decodeVars, argmaxVars, twinVars, codecVars, oggVars,
            handlerVars, clientVars,
    sessVars, recVars>>

notHandler == <<serveVars, decodeVars, argmaxVars, twinVars, codecVars, oggVars,
                wavVars, clientVars,
    sessVars, recVars>>

notClient == <<serveVars, decodeVars, argmaxVars, twinVars, codecVars, oggVars,
               wavVars, handlerVars, sessVars, recVars>>

\* the session works on the encoder fields of the codec component
notSession == <<serveVars, decodeVars, argmaxVars, twinVars, oggVars, wavVars,
                handlerVars, clientVars, recVars>>

notRecorder == <<serveVars, decodeVars, argmaxVars, twinVars, codecVars, oggVars,
                 wavVars, handlerVars, clientVars, sessVars>>

vars == <<serveVars, decodeVars, argmaxVars, twinVars, codecVars, oggVars,
          wavVars, handlerVars,
          clientVars, sessVars, recVars>>

(***************************************************************************)
(* Bounds                                                                  *)
(***************************************************************************)
NumReqs == 2

Reqs == 1..NumReqs

(***************************************************************************)
(* Serving layer: slots registered in main()                               *)
(***************************************************************************)
MoonshineSlots == {"moonshine_es", "moonshine_en"}

ParakeetSlot == "parakeet"

Slots == MoonshineSlots \cup {ParakeetSlot}

NoSlot == "none"

NoHandle == <<NoSlot, 0, FALSE>>

\* A handle is the object allocated by a successful load: the loader that
\* built it, the ordinal of the allocation, and whether the model it wraps
\* has its preprocessor session (Model.preprocessor # nil).
Handles == Slots \X (1..(NumReqs + 1)) \X BOOLEAN

\* Each lazy loader struct embeds its own sync.Mutex.
SharedMutex(s) == ParakeetSlot

SlotMutex(s) == s

\* The double check under the lock: if l.loaded == nil.
AlwaysPopulate(s) == TRUE

NeedsPopulation(s) == loaded[s] = NoHandle

\* Only parakeetTranscriber.Transcribe takes a per-handle mutex;
\* moonshineTranscriber has no mutex field.
HasHandleMutex(h) == h[1] = ParakeetSlot

InitServe ==
    /\ pc = [r \in Reqs |-> "idle"]
    /\ slot = [r \in Reqs |-> NoSlot]
    /\ lmu = [s \in Slots |-> 0]
    /\ loaded = [s \in Slots |-> NoHandle]
    /\ hmu = [h \in {x \in Handles : HasHandleMutex(x)} |-> 0]
    /\ t = [r \in Reqs |-> NoHandle]
    /\ result = [r \in Reqs |-> "none"]
    /\ preFail = [r \in Reqs |-> FALSE]
    /\ firstUse = [r \in Reqs |-> FALSE]
    /\ starts = [s \in Slots |-> 0]
    /\ fails = [s \in Slots |-> 0]
    /\ stores = [s \in Slots |-> 0]
    /\ stepFail = [s \in Slots |-> 0]

\* handleTranscribe selected loader s and calls t.Transcribe(samples, rate).
\* Requests are numbered in their order of arrival.
Arrive(r) ==
    /\ UNCHANGED notServe
    /\ pc[r] = "idle"
    /\ \A q \in Reqs : q < r => pc[q] # "idle"
    /\ \E s \in Slots :
         /\ slot' = [slot EXCEPT ![r] = s]
         /\ firstUse' = [firstUse EXCEPT ![r] = (loaded[s] = NoHandle)]
    /\ pc' = [pc EXCEPT ![r] = "lock"]
    /\ UNCHANGED <<lmu, loaded, hmu, t, result, preFail, starts, fails,
                   stores, stepFail>>

\* l.mu.Lock()
NoLazyLock(r) ==
    /\ UNCHANGED notServe
    /\ pc[r] = "lock"
    /\ pc' = [pc EXCEPT ![r] = "check"]
    /\ UNCHANGED <<slot, lmu, loaded, hmu, t, result, preFail, firstUse,
                   starts, fails, stores, stepFail>>

LazyLock(r) ==
    /\ UNCHANGED notServe
    /\ pc[r] = "lock"
    /\ lmu[SlotMutex(slot[r])] = 0
    /\ lmu' = [lmu EXCEPT ![SlotMutex(slot[r])] = r]
    /\ pc' = [pc EXCEPT ![r] = "check"]
    /\ UNCHANGED <<slot, loaded, hmu, t, result, preFail, firstUse,
                   starts, fails, stores, stepFail>>

\* if l.loaded == nil { ... }
LazyCheck(r) ==
    /\ UNCHANGED notServe
    /\ pc[r] = "check"
    /\ IF NeedsPopulation(slot[r])
         THEN /\ pc' = [pc EXCEPT ![r] = "ensure"]
              /\ starts' = [starts EXCEPT ![slot[r]] = @ + 1]
         ELSE /\ pc' = [pc EXCEPT ![r] = "take"]
              /\ UNCHANGED starts
    /\ UNCHANGED <<slot, lmu, loaded, hmu, t, result, preFail, firstUse,
                   fails, stores, stepFail>>

\* The lazy Transcribe returned: the goroutine's locals are gone.
Return(r, res) ==
    /\ result' = [result EXCEPT ![r] = res]
    /\ pc' = [pc EXCEPT ![r] = "done"]
    /\ slot' = [slot EXCEPT ![r] = NoSlot]
    /\ t' = [t EXCEPT ![r] = NoHandle]
    /\ preFail' = [preFail EXCEPT ![r] = FALSE]
    /\ firstUse' = [firstUse EXCEPT ![r] = FALSE]

\* an error return that keeps the loader mutex
PopulationErrorLocked(r) ==
    /\ UNCHANGED lmu
    /\ fails' = [fails EXCEPT ![slot[r]] = @ + 1]
    /\ stepFail' = [stepFail EXCEPT ![slot[r]] = @ + 1]
    /\ Return(r, "err")

\* The error return of the population block: l.mu.Unlock(); return nil, err
PopulationError(r) ==
    /\ lmu' = [lmu EXCEPT ![SlotMutex(slot[r])] = 0]
    /\ fails' = [fails EXCEPT ![slot[r]] = @ + 1]
    /\ stepFail' = [stepFail EXCEPT ![slot[r]] = @ + 1]
    /\ Return(r, "err")

\* mdl.EnsureModel(l.cacheDir, info) of either loader, with its error check.
EnsureModel(r) ==
    /\ UNCHANGED notServe
    /\ pc[r] = "ensure"
    /\ \/ /\ pc' = [pc EXCEPT ![r] =
                      IF slot[r] = ParakeetSlot THEN "ensure2" ELSE "load"]
          /\ UNCHANGED <<lmu, result, fails, stepFail, slot, t, preFail,
                         firstUse>>
       \/ PopulationError(r)
    /\ UNCHANGED <<loaded, hmu, starts, stores>>

\* lazyParakeet only: mdl.EnsureModel(l.cacheDir, mdl.ParakeetPreprocessor),
\* whose results are discarded.
EnsurePreprocessor(r) ==
    /\ UNCHANGED notServe
    /\ pc[r] = "ensure2"
    /\ \/ UNCHANGED <<preFail, stepFail>>
       \/ /\ preFail' = [preFail EXCEPT ![r] = TRUE]
          /\ stepFail' = [stepFail EXCEPT ![slot[r]] = @ + 1]
    /\ pc' = [pc EXCEPT ![r] = "load"]
    /\ UNCHANGED <<slot, lmu, loaded, hmu, t, result, firstUse, starts,
                   fails, stores>>

\* The handle a successful load allocates. parakeet.LoadModel opens the
\* preprocessor session only if nemo128.onnx exists, and the download
\* leaves no file behind when it fails.
NewHandle(r) == <<slot[r], stores[slot[r]] + 1, ~preFail[r]>>

\* moonshine_load_transcriber_from_files / parakeet.LoadModel, the error
\* check, and the assignment to l.loaded.
Load(r) ==
    /\ UNCHANGED notServe
    /\ pc[r] = "load"
    /\ \/ /\ loaded' = [loaded EXCEPT ![slot[r]] = NewHandle(r)]
          /\ stores' = [stores EXCEPT ![slot[r]] = @ + 1]
          /\ pc' = [pc EXCEPT ![r] = "take"]
          /\ UNCHANGED <<lmu, result, fails, stepFail, slot, t, preFail,
                         firstUse>>
       \/ /\ PopulationError(r)
          /\ UNCHANGED <<loaded, stores>>
    /\ UNCHANGED <<hmu, starts>>

\* t := l.loaded; l.mu.Unlock()
Take(r) ==
    /\ UNCHANGED notServe
    /\ pc[r] = "take"
    /\ t' = [t EXCEPT ![r] = loaded[slot[r]]]
    /\ lmu' = [lmu EXCEPT ![SlotMutex(slot[r])] = 0]
    /\ pc' = [pc EXCEPT ![r] = "call"]
    /\ UNCHANGED <<slot, loaded, hmu, result, preFail, firstUse, starts,
                   fails, stores, stepFail>>

\* return t.Transcribe(samples, sampleRate): entry of the handle's method.
\* parakeetTranscriber: p.mu.Lock(); moonshineTranscriber: straight into
\* the C call.
BeginInference(r) ==
    /\ UNCHANGED notServe
    /\ pc[r] = "call"
    /\ IF HasHandleMutex(t[r])
         THEN /\ hmu[t[r]] = 0
              /\ hmu' = [hmu EXCEPT ![t[r]] = r]
         ELSE UNCHANGED hmu
    /\ pc' = [pc EXCEPT ![r] = "infer"]
    /\ UNCHANGED <<slot, lmu, loaded, t, result, preFail, firstUse, starts,
                   fails, stores, stepFail>>

\* The backend call returns. A parakeet model without its preprocessor
\* session dereferences a nil encoder output and panics; the deferred
\* p.mu.Unlock() runs in every case.
EndInference(r) ==
    /\ UNCHANGED notServe
    /\ pc[r] = "infer"
    /\ IF HasHandleMutex(t[r]) /\ ~t[r][3]
         THEN Return(r, "panic")
         ELSE \E outcome \in {"ok", "err"} : Return(r, outcome)
    /\ hmu' = IF HasHandleMutex(t[r]) THEN [hmu EXCEPT ![t[r]] = 0] ELSE hmu
    /\ UNCHANGED <<lmu, loaded, starts, fails, stores, stepFail>>

NextServe ==
    \E r \in Reqs :
       \/ Arrive(r)
       \/ LazyLock(r)
       \/ LazyCheck(r)
       \/ EnsureModel(r)
       \/ EnsurePreprocessor(r)
       \/ Load(r)
       \/ Take(r)
       \/ BeginInference(r)
       \/ EndInference(r)


(***************************************************************************)
(* Decode engine: Model.decodeTDT                                          *)
(***************************************************************************)
\* Largest encodedLen explored.
MaxLen == 3

\* vocabSize = len(m.vocab)
VocabSize == 3

\* Number of duration classes: len(logits) - vocabSize.
NumDurations == 3

\* Write and Flush calls made on one stream encoder
MaxCalls == 3

\* Frames given to OggOpus
MaxFrames == 21

\* Scores a logit may take; only their order matters to the argmax loops.
LogitValues == {0, 1}

Logits == [0..(VocabSize + NumDurations - 1) -> LogitValues]

\* The two argmax loops: best starts at the first index of the range and
\* moves to i only when logits[i] > bestScore.
RECURSIVE ArgmaxLoopLast(_, _, _, _)
ArgmaxLoopLast(lg, i, hi, best) ==
    IF i >= hi THEN best
    ELSE ArgmaxLoopLast(lg, i + 1, hi, IF lg[i] >= lg[best] THEN i ELSE best)

RECURSIVE ArgmaxLoop(_, _, _, _)
ArgmaxLoop(lg, i, hi, best) ==
    IF i >= hi THEN best
    ELSE ArgmaxLoop(lg, i + 1, hi, IF lg[i] > lg[best] THEN i ELSE best)

\* bestToken: argmax over logits[0:vocabSize]
ArgmaxToken(lg) == ArgmaxLoop(lg, 1, VocabSize, 0)

\* skip before the clamp: argmax over logits[vocabSize:], as an offset
ArgmaxDuration(lg) ==
    ArgmaxLoop(lg, VocabSize + 1, VocabSize + NumDurations, VocabSize)
      - VocabSize

\* if skip == 0 { skip = 1 }
NoClamp(d) == d

SkipPlusOne(d) == d + 1

Clamp(d) == IF d = 0 THEN 1 ELSE d

\* if bestToken != m.blankIdx
BlankIsLast(tok) == tok = VocabSize - 1

\* a loop that accepts every best token
NeverBlank(tok) == FALSE

IsBlank(tok) == tok = blankIdx

\* copy(states1, newS1); copy(states2, newS2)
KeepState(dst, src) == dst

CopyState(dst, src) == src

\* return nil, fmt.Errorf(...): the token slice handed back on failure
PartialReturn(toks) == toks

ErrorTokens(toks) == <<>>

\* The tensors returned by the n-th prediction-network call are named n;
\* 0 names the zero-filled initial state.
ZeroState == 0

PredCalls == Cardinality({i \in DOMAIN calls : calls[i].kind = "pred"})

InitDecode ==
    /\ dpc = "prime"
    /\ encodedLen \in 0..MaxLen
    /\ blankIdx \in 0..(VocabSize - 1)
    /\ tpos = 0
    /\ tokens = <<>>
    /\ decOut = 0
    /\ states = ZeroState
    /\ newS = ZeroState
    /\ bestToken = 0
    /\ durIdx = 0
    /\ skip = 0
    /\ steps = 0
    /\ calls = <<>>
    /\ ret = [returned |-> FALSE, err |-> FALSE, tokens |-> <<>>]

\* return nil, fmt.Errorf(...)
Fail ==
    /\ dpc' = "error"
    /\ ret' = [returned |-> TRUE, err |-> TRUE, tokens |-> ErrorTokens(tokens)]

\* The loop test "for t < encodedLen" at position p, and "return tokens, nil"
LoopTest(p, toks) ==
    IF p < encodedLen
      THEN /\ dpc' = "joint"
           /\ UNCHANGED ret
      ELSE /\ dpc' = "done"
           /\ ret' = [returned |-> TRUE, err |-> FALSE, tokens |-> toks]

PredCall(tok, sIn, ok) ==
    [kind |-> "pred", tok |-> tok, sIn |-> sIn, dIn |-> 0, frame |-> 0,
     dur |-> 0, ok |-> ok]

JointCall(frame, dIn, tok, dur, ok) ==
    [kind |-> "joint", tok |-> tok, sIn |-> 0, dIn |-> dIn, frame |-> frame,
     dur |-> dur, ok |-> ok]

\* Initial decoder run with the blank token and zeroed states, then t := 0
\* and the first loop test.
Prime ==
    /\ UNCHANGED notDecode
    /\ dpc = "prime"
    /\ \/ /\ calls' = Append(calls, PredCall(blankIdx, states, TRUE))
          /\ decOut' = PredCalls + 1
          /\ newS' = PredCalls + 1
          /\ states' = CopyState(states, PredCalls + 1)
          /\ tpos' = 0
          /\ LoopTest(0, tokens)
       \/ /\ calls' = Append(calls, PredCall(blankIdx, states, FALSE))
          /\ Fail
          /\ UNCHANGED <<decOut, newS, states, tpos>>
    /\ UNCHANGED <<encodedLen, blankIdx, tokens, bestToken, durIdx, skip, steps>>

\* One loop iteration up to the prediction-network call: frame extraction,
\* joiner call, both argmaxes, the clamp, and for a blank the advance of t.
Joint ==
    /\ UNCHANGED notDecode
    /\ dpc = "joint"
    /\ steps' = steps + 1
    /\ \/ /\ calls' = Append(calls, JointCall(tpos, decOut, 0, 0, FALSE))
          /\ Fail
          /\ UNCHANGED <<tpos, tokens, states, bestToken, durIdx, skip>>
       \/ \E lg \in Logits :
            /\ bestToken' = ArgmaxToken(lg)
            /\ durIdx' = ArgmaxDuration(lg)
            /\ skip' = Clamp(ArgmaxDuration(lg))
            /\ calls' = Append(calls, JointCall(tpos, decOut, ArgmaxToken(lg),
                                                ArgmaxDuration(lg), TRUE))
            /\ IF ~IsBlank(ArgmaxToken(lg))
                 THEN /\ tokens' = Append(tokens, ArgmaxToken(lg))
                      /\ states' = CopyState(states, newS)
                      /\ dpc' = "pred"
                      /\ UNCHANGED <<tpos, ret>>
                 ELSE /\ tpos' = tpos + Clamp(ArgmaxDuration(lg))
                      /\ LoopTest(tpos + Clamp(ArgmaxDuration(lg)), tokens)
                      /\ UNCHANGED <<tokens, states>>
    /\ UNCHANGED <<encodedLen, blankIdx, decOut, newS>>

\* The rest of an iteration that accepted a token: the prediction-network
\* call on it, t += skip, and the loop test.
Pred ==
    /\ UNCHANGED notDecode
    /\ dpc = "pred"
    /\ \/ /\ calls' = Append(calls, PredCall(bestToken, states, TRUE))
          /\ decOut' = PredCalls + 1
          /\ newS' = PredCalls + 1
          /\ tpos' = tpos + skip
          /\ LoopTest(tpos + skip, tokens)
       \/ /\ calls' = Append(calls, PredCall(bestToken, states, FALSE))
          /\ Fail
          /\ UNCHANGED <<decOut, newS, tpos>>
    /\ UNCHANGED <<encodedLen, blankIdx, tokens, states, bestToken, durIdx,
                   skip, steps>>

NextDecode ==
    \/ Prime
    \/ Joint
    \/ Pred

InitDecodeIdle ==
    /\ dpc = "idle"
    /\ encodedLen = 0
    /\ blankIdx = 0
    /\ tpos = 0
    /\ tokens = <<>>
    /\ decOut = 0
    /\ states = ZeroState
    /\ newS = ZeroState
    /\ bestToken = 0
    /\ durIdx = 0
    /\ skip = 0
    /\ steps = 0
    /\ calls = <<>>
    /\ ret = [returned |-> FALSE, err |-> FALSE, tokens |-> <<>>]

(***************************************************************************)
(* The argmax loops of decodeTDT applied to one logits vector              *)
(***************************************************************************)
\* Scores with three levels, so that a later element can beat an earlier
\* maximum more than once.
ScoreLevels == {0, 1, 2}

ScoreVectors == [0..(VocabSize + NumDurations - 1) -> ScoreLevels]

InitArgmax ==
    /\ amPc = "input"
    /\ amLogits \in ScoreVectors
    /\ amTok = 0
    /\ amDur = 0

InitArgmaxIdle ==
    /\ amPc = "idle"
    /\ amLogits = [i \in 0..(VocabSize + NumDurations - 1) |-> 0]
    /\ amTok = 0
    /\ amDur = 0

\* Both loops of one decode step on the joiner's logits.
ApplyArgmax ==
    /\ UNCHANGED notArgmax
    /\ amPc = "input"
    /\ amTok' = ArgmaxToken(amLogits)
    /\ amDur' = ArgmaxDuration(amLogits)
    /\ amPc' = "done"
    /\ UNCHANGED amLogits

NextArgmax == ApplyArgmax

(***************************************************************************)
(* Two decodeTDT calls against one backend                                 *)
(*                                                                         *)
(* The backend is a function of its inputs that is discovered as it is     *)
(* asked: the first call on an input fixes the answer, later calls on the  *)
(* same input get it again.  The second run starts when the first has      *)
(* returned.                                                               *)
(***************************************************************************)
Runs == {1, 2}

\* Values naming the output tensors of the prediction network.
TwinOuts == {1, 2}

\* The joiner's answers: all scores equal, or one index raised in both the
\* token range and the duration range.
TwinLogits ==
    {lg \in Logits :
        \/ \A j \in DOMAIN lg : lg[j] = 0
        \/ \E i \in 0..(VocabSize - 1) :
              /\ i < NumDurations
              /\ \A j \in DOMAIN lg : lg[j] = 1 <=> j \in {i, VocabSize + i}}

PredAnswers ==
    {[ok |-> FALSE, out |-> 0]} \cup {[ok |-> TRUE, out |-> v] : v \in TwinOuts}

JointAnswers ==
    {[ok |-> FALSE, lg |-> [i \in 0..(VocabSize + NumDurations - 1) |-> 0]]}
       \cup {[ok |-> TRUE, lg |-> l] : l \in TwinLogits}

\* The answer a is what the backend gives on this input.
Answered(memo, key, a) == key \in DOMAIN memo => memo[key] = a

Remember(memo, key, a) ==
    [x \in DOMAIN memo \cup {key} |-> IF x = key THEN a ELSE memo[x]]

\* states1, states2 of run k at entry: a buffer left over from an earlier call
StaleStates(k) == k - 1

\* states1, states2 of run k at entry: freshly made, zero-filled
FreshStates(k) == ZeroState

TwinLocals ==
    [pc |-> "prime", t |-> 0, tokens |-> <<>>, decOut |-> 0,
     states |-> ZeroState, newS |-> ZeroState, bestToken |-> 0, skip |-> 0,
     calls |-> <<>>, ret |-> [returned |-> FALSE, err |-> FALSE, tokens |-> <<>>]]

InitTwin ==
    /\ tw = [k \in Runs |-> TwinLocals]
    /\ twLen \in 0..MaxLen
    /\ twBlank \in 0..(VocabSize - 1)
    /\ memoP = [x \in {} |-> 0]
    /\ memoJ = [x \in {} |-> 0]

InitTwinIdle ==
    /\ tw = [k \in Runs |-> [TwinLocals EXCEPT !.pc = "idle"]]
    /\ twLen = 0
    /\ twBlank = 0
    /\ memoP = [x \in {} |-> 0]
    /\ memoJ = [x \in {} |-> 0]

\* return nil, fmt.Errorf(...)
TwinFail(r) ==
    [r EXCEPT !.pc = "error",
              !.ret = [returned |-> TRUE, err |-> TRUE,
                       tokens |-> ErrorTokens(r.tokens)]]

\* t := p, then the loop test "for t < encodedLen" and "return tokens, nil"
TwinLoopTest(r, p) ==
    IF p < twLen
      THEN [r EXCEPT !.t = p, !.pc = "joint"]
      ELSE [r EXCEPT !.t = p, !.pc = "done",
                     !.ret = [returned |-> TRUE, err |-> FALSE,
                              tokens |-> r.tokens]]

\* Initial decoder run with the blank token and the entry states.
TwinPrime(k) ==
    /\ UNCHANGED notTwin
    /\ tw[k].pc = "prime"
    /\ k = 2 => tw[1].ret.returned
    /\ \E a \in PredAnswers :
         LET s0 == FreshStates(k)
             key == <<twBlank, s0>>
             r == [tw[k] EXCEPT !.calls = Append(@, PredCall(twBlank, s0, a.ok))]
         IN /\ Answered(memoP, key, a)
            /\ memoP' = Remember(memoP, key, a)
            /\ tw' = [tw EXCEPT ![k] =
                        IF a.ok
                          THEN TwinLoopTest([r EXCEPT !.decOut = a.out,
                                                      !.newS = a.out,
                                                      !.states = CopyState(s0, a.out)],
                                            0)
                          ELSE TwinFail(r)]
    /\ UNCHANGED <<twLen, twBlank, memoJ>>

\* One loop iteration up to the prediction-network call.
TwinJoint(k) ==
    /\ UNCHANGED notTwin
    /\ tw[k].pc = "joint"
    /\ \E a \in JointAnswers :
         LET key == <<tw[k].t, tw[k].decOut>>
             tok == ArgmaxToken(a.lg)
             dur == ArgmaxDuration(a.lg)
             r == [tw[k] EXCEPT !.calls =
                      Append(@, JointCall(tw[k].t, tw[k].decOut,
                                          IF a.ok THEN tok ELSE 0,
                                          IF a.ok THEN dur ELSE 0, a.ok))]
         IN /\ Answered(memoJ, key, a)
            /\ memoJ' = Remember(memoJ, key, a)
            /\ tw' = [tw EXCEPT ![k] =
                        IF ~a.ok THEN TwinFail(r)
                        ELSE IF tok # twBlank
                          THEN [r EXCEPT !.bestToken = tok,
                                         !.skip = Clamp(dur),
                                         !.tokens = Append(@, tok),
                                         !.states = CopyState(@, r.newS),
                                         !.pc = "pred"]
                          ELSE TwinLoopTest([r EXCEPT !.bestToken = tok,
                                                      !.skip = Clamp(dur)],
                                            r.t + Clamp(dur))]
    /\ UNCHANGED <<twLen, twBlank, memoP>>

\* The prediction-network call on an accepted token, t += skip, loop test.
TwinPred(k) ==
    /\ UNCHANGED notTwin
    /\ tw[k].pc = "pred"
    /\ \E a \in PredAnswers :
         LET key == <<tw[k].bestToken, tw[k].states>>
             r == [tw[k] EXCEPT !.calls =
                      Append(@, PredCall(tw[k].bestToken, tw[k].states, a.ok))]
         IN /\ Answered(memoP, key, a)
            /\ memoP' = Remember(memoP, key, a)
            /\ tw' = [tw EXCEPT ![k] =
                        IF a.ok
                          THEN TwinLoopTest([r EXCEPT !.decOut = a.out,
                                                      !.newS = a.out],
                                            r.t + r.skip)
                          ELSE TwinFail(r)]
    /\ UNCHANGED <<twLen, twBlank, memoJ>>

NextTwin ==
    \E k \in Runs :
        \/ TwinPrime(k)
        \/ TwinJoint(k)
        \/ TwinPred(k)

(***************************************************************************)
(* StreamEncoder (Write, Flush, Bytes) and DecodeOpus                      *)
(*                                                                         *)
(* A sample is named by its position in the input (1, 2, 3, ...); 0 is the *)
(* silence Flush pads with.  The codec is a black box: it turns 320        *)
(* samples into a frame, or fails; it turns a frame into 320 samples, or   *)
(* fails.  Odd and even numbered frames differ in length.                  *)
(***************************************************************************)
FrameSize == 320

SampleRate == 16000

\* Sample counts of one Write call.
WriteSizes == {1, 319, 320, 640}

\* Byte lengths the encoder produces; 258 has two different length bytes.
FrameLens == {1, 258}

\* The bytes of the frame the encoder made from pcm, n bytes long.
FrameBytes(pcm, n) == [i \in 1..n |-> (pcm[1] + i) % 256]

\* binary.Write(&s.out, binary.BigEndian, uint16(n))
U16BE(n) == <<(n \div 256) % 256, n % 256>>

\* binary.Write(&s.out, binary.LittleEndian, uint16(n))
U16LE(n) == <<n % 256, (n \div 256) % 256>>

\* binary.Read(r, binary.LittleEndian, &frameLen)
ReadU16LE(lo, hi) == lo + 256 * hi

\* for len(s.buf) > FrameSize
HasMoreThanFrame(b) == Len(b) > FrameSize

\* for len(s.buf) >= FrameSize
HasFullFrame(b) == Len(b) >= FrameSize

\* Flush never encodes a partial frame
FlushOnlyFull(b) == Len(b) >= FrameSize

\* Flush: len(s.buf) == 0 returns at once
FlushNeeded(b) == Len(b) # 0

\* the buffered samples, not padded
NoPad(b) == b

\* pcm := make([]float32, FrameSize); copy(pcm, s.buf)
PadFrame(b) == [i \in 1..FrameSize |-> IF i <= Len(b) THEN b[i] ELSE 0]

\* The encoder state as one value, for the loop of Write.
Encoder == [buf |-> buf, out |-> out, frames |-> frames, pcmLog |-> pcmLog,
            err |-> FALSE]

\* A successful encode of pcm into n bytes: one record on the wire, one
\* frame in the list.
Emit(e, pcm, n) ==
    [e EXCEPT !.out = @ \o U16LE(n) \o FrameBytes(pcm, n),
              !.frames = Append(@, FrameBytes(pcm, n)),
              !.pcmLog = Append(@, pcm)]

\* n of "n, err := s.enc.Encode(...)" for the next frame of encoder e.
EncodedLen(e) == encLen[(Len(e.frames) % 2) + 1]

\* a buffer that keeps the frame until its encode succeeded
CutNothing(b) == b

\* s.buf = s.buf[FrameSize:], before the frame is encoded
Cut(b) == SubSeq(b, FrameSize + 1, Len(b))

\* The loop of Write.  The next nOk encodes succeed, the one after fails.
RECURSIVE WriteLoop(_, _)
WriteLoop(e, nOk) ==
    IF ~HasFullFrame(e.buf) THEN e
    ELSE LET pcm == SubSeq(e.buf, 1, FrameSize)
             e1 == [e EXCEPT !.buf = Cut(@)]
         IN IF nOk = 0 THEN [e1 EXCEPT !.err = TRUE]
            ELSE WriteLoop(Emit(e1, pcm, EncodedLen(e1)), nOk - 1)

\* dec.given: how many bytes of the wire stream DecodeOpus was given.
NoDecode == [done |-> FALSE, given |-> 0, failAt |-> 0, err |-> FALSE,
             chunks |-> <<>>, rate |-> 0]

InitCodec ==
    /\ encLen \in {f \in [1..2 -> FrameLens] : f[1] # f[2]}
    /\ buf = <<>>
    /\ out = <<>>
    /\ frames = <<>>
    /\ pcmLog = <<>>
    /\ hist = <<>>
    /\ fed = 0
    /\ dec = NoDecode

Store(e) ==
    /\ buf' = e.buf
    /\ out' = e.out
    /\ frames' = e.frames
    /\ pcmLog' = e.pcmLog

\* StreamEncoder.Write on the next n samples of the input.
Write(n) ==
    /\ UNCHANGED notCodec
    /\ Len(hist) < MaxCalls
    /\ ~dec.done
    /\ LET samples == [i \in 1..n |-> fed + i]
           e0 == [Encoder EXCEPT !.buf = @ \o samples]
       IN \E nOk \in 0..(Len(e0.buf) \div FrameSize) :
            LET e == WriteLoop(e0, nOk)
            IN /\ nOk < Len(e0.buf) \div FrameSize => e.err
               /\ Store(e)
               /\ hist' = Append(hist, [op |-> "write", n |-> n, ok |-> ~e.err])
    /\ fed' = fed + n
    /\ UNCHANGED <<encLen, dec>>

\* StreamEncoder.Flush.
Flush ==
    /\ UNCHANGED notCodec
    /\ Len(hist) < MaxCalls
    /\ ~dec.done
    /\ IF ~FlushNeeded(buf)
         THEN /\ UNCHANGED <<buf, out, frames, pcmLog>>
              /\ hist' = Append(hist, [op |-> "flush", n |-> 0, ok |-> TRUE])
         ELSE LET pcm == PadFrame(buf)
                  e1 == [Encoder EXCEPT !.buf = <<>>]
              IN \/ /\ Store(e1)
                    /\ hist' = Append(hist, [op |-> "flush", n |-> 0, ok |-> FALSE])
                 \/ /\ Store(Emit(e1, pcm, EncodedLen(e1)))
                    /\ hist' = Append(hist, [op |-> "flush", n |-> 0, ok |-> TRUE])
    /\ UNCHANGED <<encLen, fed, dec>>

\* StreamEncoder.Bytes
Bytes == out

\* return nil, 0, fmt.Errorf(...)
DecodeError == [err |-> TRUE, chunks |-> <<>>, rate |-> 0]

\* a length read that takes a lone last byte for the end of the input
LengthReadLax(avail) == IF avail < 2 THEN "EOF" ELSE "nil"

\* err of binary.Read(r, binary.LittleEndian, &frameLen) with avail bytes left
LengthRead(avail) ==
    IF avail = 0 THEN "EOF"
    ELSE IF avail < 2 THEN "ErrUnexpectedEOF"
    ELSE "nil"

\* The loop of DecodeOpus after pos bytes and k frames; the decoder rejects
\* frame number failAt (0: none).  Each decoded frame adds a chunk of
\* pcm[:n] samples.
RECURSIVE DecodeLoop(_, _, _, _, _)
DecodeLoop(data, pos, k, failAt, chunks) ==
    LET avail == Len(data) - pos
    IN IF LengthRead(avail) = "EOF"
         THEN [err |-> FALSE, chunks |-> chunks, rate |-> SampleRate]
       ELSE IF LengthRead(avail) # "nil" THEN DecodeError
       ELSE LET frameLen == ReadU16LE(data[pos + 1], data[pos + 2])
            IN IF avail - 2 < frameLen THEN DecodeError
               ELSE IF k + 1 = failAt THEN DecodeError
               ELSE DecodeLoop(data, pos + 2 + frameLen, k + 1, failAt,
                               Append(chunks,
                                      [frame |-> SubSeq(data, pos + 3,
                                                        pos + 2 + frameLen),
                                       n |-> FrameSize]))

DecodeOpus(data, failAt) == DecodeLoop(data, 0, 0, failAt, <<>>)

Decoded(data, failAt) ==
    LET r == DecodeOpus(data, failAt)
    IN [done |-> TRUE, given |-> Len(data), failAt |-> failAt, err |-> r.err,
        chunks |-> r.chunks, rate |-> r.rate]

\* DecodeOpus on the whole wire stream; the decoder may reject one frame.
DecodeBytes ==
    /\ UNCHANGED notCodec
    /\ ~dec.done
    /\ \E failAt \in 0..Len(frames) : dec' = Decoded(Bytes, failAt)
    /\ UNCHANGED <<encLen, buf, out, frames, pcmLog, hist, fed>>

\* DecodeOpus on a stream that lost its last one to three bytes, or all
\* but its first byte.
DecodeCut ==
    /\ UNCHANGED notCodec
    /\ ~dec.done
    /\ \E c \in 1..(Len(out) - 1) :
         /\ c = 1 \/ c >= Len(out) - 3
         /\ dec' = Decoded(SubSeq(Bytes, 1, c), 0)
    /\ UNCHANGED <<encLen, buf, out, frames, pcmLog, hist, fed>>

NextCodec ==
    \/ \E n \in WriteSizes : Write(n)
    \/ Flush
    \/ DecodeBytes
    \/ DecodeCut

InitCodecIdle ==
    /\ encLen = [i \in 1..2 |-> 1]
    /\ buf = <<>>
    /\ out = <<>>
    /\ frames = <<>>
    /\ pcmLog = <<>>
    /\ hist = <<>>
    /\ fed = 0
    /\ dec = [NoDecode EXCEPT !.done = TRUE]

(***************************************************************************)
(* OggOpus: the container writer                                           *)
(*                                                                         *)
(* A uint32 of the checksum code is its four bytes, lowest byte first.      *)
(***************************************************************************)
serial == 1280659009

\* The frames a caller passes in: three shapes, repeating from some phase.
FrameShapes == <<<<7>>, <<200, 1>>, <<3, 4, 5>>>>

FrameList(n, phase) == [i \in 1..n |-> FrameShapes[((i + phase) % 3) + 1]]

\* Frames as long as the encoder's output buffer allows (maxFrameBytes), with
\* the lengths around the multiples of 255.
MaxPackets == 2

maxFrameBytes == 1024

PacketLens == {0, 1, 254, 255, 256, 510, maxFrameBytes}

Packet(n) == [i \in 1..n |-> i % 256]

PacketLists ==
    UNION {[1..k -> {Packet(n) : n \in PacketLens}] : k \in 1..MaxPackets}

\* What a StreamEncoder that filled its frame buffer every time hands over:
\* one full page of frames of maxFrameBytes bytes, and one frame more.
FullPageLists == {[i \in 1..n |-> Packet(maxFrameBytes)] : n \in {10, 11}}

\* binary.Write(.., binary.LittleEndian, v) of a value of k bytes
RECURSIVE LE(_, _)
LE(v, k) == IF k = 0 THEN <<>> ELSE <<v % 256>> \o LE(v \div 256, k - 1)

\* "OpusHead", version 1, channel count, pre-skip, sample rate, gain, mapping
makeOpusHead(sampleRate, channels) ==
    <<79, 112, 117, 115, 72, 101, 97, 100>> \o <<1, channels % 256>>
        \o LE(0, 2) \o LE(sampleRate, 4) \o LE(0, 2) \o <<0>>

\* "OpusTags", the vendor string "lunartlk", no user comments
makeOpusTags ==
    <<79, 112, 117, 115, 84, 97, 103, 115>> \o LE(8, 4)
        \o <<108, 117, 110, 97, 114, 116, 108, 107>> \o LE(0, 4)

\* lacing that ends a segment of a multiple of 255 bytes without a 0
LacingNoEnd(n) ==
    [i \in 1..((n + 254) \div 255) |-> IF i <= n \div 255 THEN 255 ELSE n % 255]

\* The lacing values of one segment of n bytes.
RECURSIVE Lacing(_)
Lacing(n) == IF n >= 255 THEN <<255>> \o Lacing(n - 255) ELSE <<n>>

RECURSIVE SegTable(_)
SegTable(segments) ==
    IF segments = <<>> THEN <<>>
    ELSE Lacing(Len(Head(segments))) \o SegTable(Tail(segments))

RECURSIVE PageData(_)
PageData(segments) ==
    IF segments = <<>> THEN <<>> ELSE Head(segments) \o PageData(Tail(segments))

\* x ^ y on bytes
XorByte(x, y) ==
    ((x + y) % 2) + 2 * (((x \div 2) + (y \div 2)) % 2)
      + 4 * (((x \div 4) + (y \div 4)) % 2) + 8 * (((x \div 8) + (y \div 8)) % 2)
      + 16 * (((x \div 16) + (y \div 16)) % 2)
      + 32 * (((x \div 32) + (y \div 32)) % 2)
      + 64 * (((x \div 64) + (y \div 64)) % 2)
      + 128 * (((x \div 128) + (y \div 128)) % 2)

\* var crc uint32
Zero32 == <<0, 0, 0, 0>>

\* 0x04C11DB7
Poly == <<183, 29, 193, 4>>

Xor(v, w) ==
    <<XorByte(v[1], w[1]), XorByte(v[2], w[2]), XorByte(v[3], w[3]),
      XorByte(v[4], w[4])>>

\* v << 1 on a uint32
Shl1(v) ==
    <<(2 * v[1]) % 256, (2 * v[2] + (v[1] \div 128)) % 256,
      (2 * v[3] + (v[2] \div 128)) % 256, (2 * v[4] + (v[3] \div 128)) % 256>>

\* v << 8 on a uint32
Shl8(v) == <<0, v[1], v[2], v[3]>>

\* init(): one table entry, with j of the eight shifts still to do
RECURSIVE TableShift(_, _)
TableShift(r, j) ==
    IF j = 0 THEN r
    ELSE TableShift(IF r[4] \div 128 # 0 THEN Xor(Shl1(r), Poly) ELSE Shl1(r),
                    j - 1)

\* uint32(i) << 24, shifted eight times
oggCRCTable == [i \in 0..255 |-> TableShift(<<0, 0, 0, i>>, 8)]

\* a table index that ignores the running checksum
TableIndexDataOnly(crc, b) == b

\* byte(crc>>24) ^ b
TableIndex(crc, b) == XorByte(crc[4], b)

Uint32 == (0..255) \X (0..255) \X (0..255) \X (0..255)

\* crc = (crc << 8) ^ oggCRCTable[byte(crc>>24)^b]
CrcStep ==
    [crc \in Uint32, b \in 0..255 |->
        Xor(Shl8(crc), oggCRCTable[TableIndex(crc, b)])]

\* The loop over data: loop[crc, lo, hi] is crc after the bytes lo..hi, taken
\* in order.  The range is walked in halves to keep the evaluation shallow.
crc32Ogg(data) ==
    LET loop[crc \in Uint32, lo \in 1..(Len(data) + 1), hi \in 0..Len(data)] ==
            IF lo > hi THEN crc
            ELSE IF lo = hi THEN CrcStep[crc, data[lo]]
            ELSE loop[loop[crc, lo, (lo + hi) \div 2], ((lo + hi) \div 2) + 1, hi]
    IN loop[Zero32, 1, Len(data)]

\* The bytes of one page: header with a zero checksum field, segment table
\* and payload; then the checksum written over bytes 22..25 (counted from 0).
writeOggPage(granule, seqNo, flags, segments) ==
    LET segTable == SegTable(segments)
        hdr == <<79, 103, 103, 83>> \o <<0, flags>> \o LE(granule, 8)
                 \o LE(serial, 4) \o LE(seqNo, 4) \o LE(0, 4)
                 \o <<Len(segTable) % 256>> \o segTable
        page == hdr \o PageData(segments)
        crc == crc32Ogg(page)
    IN [i \in 1..Len(page) |->
          IF i \in 23..26 THEN crc[i - 22] ELSE page[i]]

\* a page written at the last frame only
PageAtEnd(pf) == FALSE

\* len(pageFrames) > 10
PageOverFull(pf) == Len(pf) > 10

\* len(pageFrames) >= 10
PageFull(pf) == Len(pf) >= 10

InitOgg ==
    /\ ogPc = "head"
    /\ \E n \in 0..MaxFrames, phase \in 0..2 : opusFrames = FrameList(n, phase)
    /\ ogI = 0
    /\ pageFrames = <<>>
    /\ granulePos = 0
    /\ pageSeq = 0
    /\ oggPages = <<>>
    /\ oggUpload = NoDecode

\* OggOpus called with frames of up to maxFrameBytes bytes
InitLacing ==
    /\ ogPc = "head"
    /\ opusFrames \in PacketLists \cup FullPageLists
    /\ ogI = 0
    /\ pageFrames = <<>>
    /\ granulePos = 0
    /\ pageSeq = 0
    /\ oggPages = <<>>
    /\ oggUpload = NoDecode

InitOggIdle ==
    /\ ogPc = "idle"
    /\ opusFrames = <<>>
    /\ ogI = 0
    /\ pageFrames = <<>>
    /\ granulePos = 0
    /\ pageSeq = 0
    /\ oggPages = <<>>
    /\ oggUpload = NoDecode

\* Page 1: OpusHead, granule 0, sequence number 0, BOS flag
WriteHead ==
    /\ UNCHANGED notOgg
    /\ ogPc = "head"
    /\ oggPages' = Append(oggPages,
                          writeOggPage(0, 0, 2, <<makeOpusHead(SampleRate, 1)>>))
    /\ ogPc' = "tags"
    /\ UNCHANGED <<opusFrames, ogI, pageFrames, granulePos, pageSeq, oggUpload>>

\* Page 2: OpusTags, sequence number 1; then the locals of the frame loop
WriteTags ==
    /\ UNCHANGED notOgg
    /\ ogPc = "tags"
    /\ oggPages' = Append(oggPages, writeOggPage(0, 1, 0, <<makeOpusTags>>))
    /\ pageFrames' = <<>>
    /\ granulePos' = 0
    /\ pageSeq' = 2
    /\ ogPc' = "loop"
    /\ UNCHANGED <<opusFrames, ogI, oggUpload>>

\* One iteration of "for i, frame := range opusFrames"
TakeFrame ==
    /\ UNCHANGED notOgg
    /\ ogPc = "loop"
    /\ ogI < Len(opusFrames)
    /\ LET pf == Append(pageFrames, opusFrames[ogI + 1])
           g == granulePos + FrameSize
           last == ogI = Len(opusFrames) - 1
       IN /\ granulePos' = g
          /\ IF PageFull(pf) \/ last
               THEN /\ oggPages' = Append(oggPages,
                                          writeOggPage(g, pageSeq,
                                                       IF last THEN 4 ELSE 0, pf))
                    /\ pageSeq' = pageSeq + 1
                    /\ pageFrames' = <<>>
               ELSE /\ pageFrames' = pf
                    /\ UNCHANGED <<oggPages, pageSeq>>
    /\ ogI' = ogI + 1
    /\ UNCHANGED <<ogPc, opusFrames, oggUpload>>

\* return buf.Bytes()
ReturnOgg ==
    /\ UNCHANGED notOgg
    /\ ogPc = "loop"
    /\ ogI = Len(opusFrames)
    /\ ogPc' = "done"
    /\ UNCHANGED <<opusFrames, ogI, pageFrames, granulePos, pageSeq, oggPages,
                   oggUpload>>

\* buf.Bytes(): the pages one after the other
RECURSIVE OggBytes(_)
OggBytes(pages) ==
    IF pages = <<>> THEN <<>> ELSE Head(pages) \o OggBytes(Tail(pages))

\* The container is posted to /transcribe under a name ending in ".opus":
\* handleTranscribe gives the bytes to DecodeOpus.  The decoder may accept
\* or reject the first frame it is handed.
UploadContainer ==
    /\ UNCHANGED notOgg
    /\ ogPc = "done"
    /\ \E failAt \in 0..1 : oggUpload' = Decoded(OggBytes(oggPages), failAt)
    /\ ogPc' = "uploaded"
    /\ UNCHANGED <<opusFrames, ogI, pageFrames, granulePos, pageSeq, oggPages>>

NextOgg ==
    \/ WriteHead
    \/ WriteTags
    \/ TakeFrame
    \/ ReturnOgg
    \/ UploadContainer

(***************************************************************************)
(* Package wav: Encode, Decode and pcmToFloat32                            *)
(*                                                                         *)
(* A float32 sample is the exact fraction num/den; the values used have so *)
(* few significant bits that the float32 product with 32767 is exact.  A   *)
(* decoded sample is num / 2^exp.                                          *)
(***************************************************************************)
MaxSamples == 2

MaxChunks == 3

SampleValues ==
    {[num |-> a, den |-> 8] : a \in {-16, -9, -8, -7, -4, -1, 0, 1, 4, 7, 8, 9, 16}}

SampleLists == UNION {[1..k -> SampleValues] : k \in 0..MaxSamples}

\* 100 samples of 0.5
HalfSamples == [i \in 1..100 |-> [num |-> 4, den |-> 8]]

\* truncation toward zero of x / d, d > 0
TruncDiv(x, d) == IF x >= 0 THEN x \div d ELSE -((-x) \div d)

\* int16(v) of an integer v: the low 16 bits, as a signed value
Int16(v) == IF v % 65536 >= 32768 THEN (v % 65536) - 65536 ELSE v % 65536

\* the scaling without the clamp
ScaleUnclamped(s) == Int16(TruncDiv(s.num * 32767, s.den))

\* if s > 1.0 { s = 1.0 } else if s < -1.0 { s = -1.0 }; int16(s*32767)
ClampScale(s) ==
    LET c == IF s.num > s.den THEN [num |-> 1, den |-> 1]
             ELSE IF s.num < -s.den THEN [num |-> -1, den |-> 1]
             ELSE s
    IN Int16(TruncDiv(c.num * 32767, c.den))

\* opus.go float32ToInt16: out[i] for every i
float32ToInt16(in) == [i \in DOMAIN in |-> ClampScale(in[i])]

RIFF == <<82, 73, 70, 70>>

WAVE == <<87, 65, 86, 69>>

FmtId == <<102, 109, 116, 32>>

DataId == <<100, 97, 116, 97>>

ListId == <<76, 73, 83, 84>>

\* the loop over samples: two bytes per sample, low byte first
EncodeSamples(samples) ==
    [i \in 1..(2 * Len(samples)) |->
        LE(ClampScale(samples[(i + 1) \div 2]) % 65536, 2)[((i - 1) % 2) + 1]]

\* Encode: RIFF header, fmt chunk (PCM, mono, 16 bit), data chunk
Encode(samples, sampleRate) ==
    LET dataSize == Len(samples) * 2
        fileSize == 36 + dataSize
    IN RIFF \o LE(fileSize, 4) \o WAVE
         \o FmtId \o LE(16, 4) \o LE(1, 2) \o LE(1, 2) \o LE(sampleRate, 4)
         \o LE(sampleRate * 2, 4) \o LE(2, 2) \o LE(16, 2)
         \o DataId \o LE(dataSize, 4) \o EncodeSamples(samples)

\* binary.LittleEndian.Uint16(b[at:]) with at counted from 0
Uint16At(b, at) == b[at + 1] + 256 * b[at + 2]

\* binary.LittleEndian.Uint32(b[at:]).  A value of 2^30 or more is taken as
\* 2^30: it is used only as a chunk size, and every such size points far
\* beyond the end of the files considered.
Uint32At(b, at) ==
    IF b[at + 4] >= 64 THEN 1073741824
    ELSE b[at + 1] + 256 * b[at + 2] + 65536 * b[at + 3] + 16777216 * b[at + 4]

\* int32(binary.LittleEndian.Uint32(b[at:]))
Int32At(b, at) ==
    b[at + 1] + 256 * b[at + 2] + 65536 * b[at + 3]
      + 16777216 * (IF b[at + 4] >= 128 THEN b[at + 4] - 256 ELSE b[at + 4])

\* float32(v) for 2^24 <= v < 2^31: v rounded to 24 significant bits, ties
\* to even, as num / 2^exp with exp <= 0 (2^31 itself is 1 / 2^-31)
RoundUp24(v) ==
    LET q == IF v >= 1073741824 THEN 128 ELSE IF v >= 536870912 THEN 64
             ELSE IF v >= 268435456 THEN 32 ELSE IF v >= 134217728 THEN 16
             ELSE IF v >= 67108864 THEN 8 ELSE IF v >= 33554432 THEN 4 ELSE 2
        r == v % q
        m == v \div q
        up == 2 * r > q \/ (2 * r = q /\ m % 2 = 1)
    IN IF ~up THEN [num |-> m * q, exp |-> 0]
       ELSE IF m + 1 = 16777216 /\ q = 128 THEN [num |-> 1, exp |-> -31]
       ELSE [num |-> (m + 1) * q, exp |-> 0]

\* float32(s) / 2147483648.0 for an int32 s
Float32Of32(v) ==
    LET f == IF v = -2147483647 - 1 THEN [num |-> -1, exp |-> -31]
             ELSE IF v >= 16777216 THEN RoundUp24(v)
             ELSE IF v <= -16777216
                    THEN [num |-> -RoundUp24(-v).num, exp |-> RoundUp24(-v).exp]
             ELSE [num |-> v, exp |-> 0]
    IN [num |-> f.num, exp |-> f.exp + 31]

\* float32(s) / 32768.0 for an int16 s
Float32Of16(v) == [num |-> v, exp |-> 15]

\* pcmToFloat32: a fault for the division by a zero frameSize, else the
\* samples; a sample the switch has no case for stays float32(0)
pcmToFloat32(data, bitsPerSample, numChannels) ==
    LET bytesPerSample == bitsPerSample \div 8
        frameSize == numChannels * bytesPerSample
    IN IF frameSize = 0 THEN [fault |-> TRUE, samples |-> <<>>]
       ELSE [fault |-> FALSE,
             samples |->
               [i \in 1..(Len(data) \div frameSize) |->
                  LET off == (i - 1) * frameSize
                  IN IF bitsPerSample = 16
                       THEN Float32Of16(Int16(Uint16At(data, off)))
                     ELSE IF bitsPerSample = 32
                       THEN Float32Of32(Int32At(data, off))
                     ELSE [num |-> 0, exp |-> 0]]]

\* ---- the files given to Decode ------------------------------------------
\* The 16 bytes of a format chunk body.
FmtBody(format, channels, rate, bits) ==
    LE(format, 2) \o LE(channels, 2) \o LE(rate, 4)
      \o LE(rate * channels * (bits \div 8), 4) \o LE(channels * (bits \div 8), 2)
      \o LE(bits, 2)

FmtShape(format, channels, bits, extra) ==
    [kind |-> "fmt", format |-> format, channels |-> channels, bits |-> bits,
     whole |-> TRUE,
     bytes |-> FmtId \o LE(16 + Len(extra), 4)
                 \o FmtBody(format, channels, 16000, bits) \o extra]

DataShape(declared, body) ==
    [kind |-> "data", format |-> 0, channels |-> 0, bits |-> 0,
     whole |-> declared = Len(body),
     bytes |-> DataId \o LE(declared, 4) \o body]

\* The chunks a file is made of.
ChunkShapes ==
    << FmtShape(1, 1, 16, <<>>),
       FmtShape(3, 1, 32, <<>>),
       FmtShape(1, 2, 32, <<0, 0>>),
       FmtShape(1, 1, 8, <<>>),
       FmtShape(1, 0, 16, <<>>),
       \* a format chunk declaring 14 bytes
       [kind |-> "fmt", format |-> 1, channels |-> 1, bits |-> 0, whole |-> TRUE,
        bytes |-> FmtId \o LE(14, 4) \o SubSeq(FmtBody(1, 1, 16000, 16), 1, 14)],
       \* a format chunk cut off after its id and size
       [kind |-> "fmt", format |-> 0, channels |-> 0, bits |-> 0, whole |-> FALSE,
        bytes |-> FmtId \o LE(16, 4)],
       DataShape(8, <<65, 64, 255, 127, 0, 0, 0, 128>>),
       \* a data chunk declaring more bytes than the file holds
       DataShape(16777216, <<1, 0>>),
       DataShape(0, <<>>),
       [kind |-> "other", format |-> 0, channels |-> 0, bits |-> 0, whole |-> TRUE,
        bytes |-> ListId \o LE(4, 4) \o <<73, 78, 70, 79>>] >>

ShapeLists == UNION {[1..k -> DOMAIN ChunkShapes] : k \in 1..MaxChunks}

RECURSIVE ChunkBytes(_)
ChunkBytes(shapes) ==
    IF shapes = <<>> THEN <<>>
    ELSE ChunkShapes[Head(shapes)].bytes \o ChunkBytes(Tail(shapes))

WavFile(magic, form, shapes) ==
    magic \o LE(4 + Len(ChunkBytes(shapes)), 4) \o form \o ChunkBytes(shapes)

\* A well-formed file, used for the damaged headers.
PlainShapes == <<1, 8>>

\* a check of the first marker only
RiffOnly(data) == SubSeq(data, 1, 4) = RIFF

\* string(data[0:4]) == "RIFF" && string(data[8:12]) == "WAVE"
HasMagic(data) == SubSeq(data, 1, 4) = RIFF /\ SubSeq(data, 9, 12) = WAVE

NoFmt ==
    [found |-> FALSE, audioFormat |-> 0, numChannels |-> 0, sampleRate |-> 0,
     bitsPerSample |-> 0]

NoReturn == [kind |-> "none", samples |-> <<>>, rate |-> 0, msg |-> ""]

Failed(msg) == [kind |-> "err", samples |-> <<>>, rate |-> 0, msg |-> msg]

Panicked == [kind |-> "panic", samples |-> <<>>, rate |-> 0, msg |-> ""]

InitWav ==
    /\ wavOff = 0
    /\ wavFmt = NoFmt
    /\ wavRet = NoReturn
    /\ wavPcm16 = <<>>
    /\ \/ /\ wavPc = "encode"
          /\ wavIn \in SampleLists \cup {HalfSamples}
          /\ wavData = <<>>
          /\ wavShape = [hdr |-> "encoded", chunks |-> PlainShapes]
       \/ /\ wavPc = "decode"
          /\ wavIn = <<>>
          /\ \/ \E shapes \in ShapeLists :
                   /\ wavShape = [hdr |-> "ok", chunks |-> shapes]
                   /\ wavData = WavFile(RIFF, WAVE, shapes)
             \/ /\ wavShape = [hdr |-> "riff", chunks |-> PlainShapes]
                /\ wavData = WavFile(<<82, 73, 70, 88>>, WAVE, PlainShapes)
             \/ /\ wavShape = [hdr |-> "wave", chunks |-> PlainShapes]
                /\ wavData = WavFile(RIFF, <<87, 65, 86, 32>>, PlainShapes)
             \/ \E n \in {0, 12, 43} :
                   /\ wavShape = [hdr |-> "short", chunks |-> PlainShapes]
                   /\ wavData = SubSeq(WavFile(RIFF, WAVE, PlainShapes), 1, n)

InitWavIdle ==
    /\ wavPc = "idle"
    /\ wavIn = <<>>
    /\ wavData = <<>>
    /\ wavShape = [hdr |-> "none", chunks |-> <<>>]
    /\ wavOff = 0
    /\ wavFmt = NoFmt
    /\ wavRet = NoReturn
    /\ wavPcm16 = <<>>

\* wav.Encode(samples, 16000), whose result is then given to Decode
EncodeWav ==
    /\ UNCHANGED notWav
    /\ wavPc = "encode"
    /\ wavData' = Encode(wavIn, 16000)
    /\ wavPc' = "decode"
    /\ UNCHANGED <<wavIn, wavShape, wavOff, wavFmt, wavRet, wavPcm16>>

\* the stream encoder's conversion of the same samples
ConvertFrame ==
    /\ UNCHANGED notWav
    /\ wavPc = "encode"
    /\ wavPcm16' = float32ToInt16(wavIn)
    /\ wavPc' = "converted"
    /\ UNCHANGED <<wavIn, wavData, wavShape, wavOff, wavFmt, wavRet>>

\* Decode, up to the loop: size and magic checks, then the locals
DecodeEntry ==
    /\ UNCHANGED notWav
    /\ wavPc = "decode"
    /\ IF Len(wavData) < 44
         THEN /\ wavRet' = Failed("file too small for WAV header")
              /\ wavPc' = "done"
              /\ UNCHANGED <<wavOff, wavFmt>>
       ELSE IF ~HasMagic(wavData)
         THEN /\ wavRet' = Failed("not a WAV file")
              /\ wavPc' = "done"
              /\ UNCHANGED <<wavOff, wavFmt>>
       ELSE /\ wavOff' = 12
            /\ wavFmt' = NoFmt
            /\ wavPc' = "walk"
            /\ UNCHANGED wavRet
    /\ UNCHANGED <<wavIn, wavData, wavShape, wavPcm16>>

chunkID == SubSeq(wavData, wavOff + 1, wavOff + 4)

chunkSize == Uint32At(wavData, wavOff + 4)

\* the reads of the fmt fields index past the end of a shorter file
FmtReadFaults == wavOff + 24 > Len(wavData)

\* loop body, chunkID == "fmt "
WalkFmt ==
    /\ UNCHANGED notWav
    /\ wavPc = "walk"
    /\ wavOff + 8 <= Len(wavData)
    /\ chunkID = FmtId
    /\ IF chunkSize < 16
         THEN /\ wavRet' = Failed("fmt chunk too small")
              /\ wavPc' = "done"
              /\ UNCHANGED <<wavOff, wavFmt>>
       ELSE IF FmtReadFaults
         THEN /\ wavRet' = Panicked
              /\ wavPc' = "done"
              /\ UNCHANGED <<wavOff, wavFmt>>
       ELSE /\ wavFmt' = [found |-> TRUE,
                          audioFormat |-> Uint16At(wavData, wavOff + 8),
                          numChannels |-> Uint16At(wavData, wavOff + 10),
                          sampleRate |-> Int32At(wavData, wavOff + 12),
                          bitsPerSample |-> Uint16At(wavData, wavOff + 22)]
            /\ wavOff' = wavOff + 8 + chunkSize
            /\ UNCHANGED <<wavRet, wavPc>>
    /\ UNCHANGED <<wavIn, wavData, wavShape, wavPcm16>>

\* loop body, chunkID == "data" && foundFmt
WalkData ==
    /\ UNCHANGED notWav
    /\ wavPc = "walk"
    /\ wavOff + 8 <= Len(wavData)
    /\ chunkID = DataId
    /\ wavFmt.found
    /\ IF wavFmt.audioFormat # 1
         THEN wavRet' = Failed("only PCM WAV supported")
       ELSE LET end == IF wavOff + 8 + chunkSize > Len(wavData)
                         THEN Len(wavData) ELSE wavOff + 8 + chunkSize
                pcmData == SubSeq(wavData, wavOff + 9, end)
                pcm == pcmToFloat32(pcmData, wavFmt.bitsPerSample,
                                    wavFmt.numChannels)
            IN wavRet' = IF pcm.fault THEN Panicked
                         ELSE [kind |-> "ok", samples |-> pcm.samples,
                               rate |-> wavFmt.sampleRate, msg |-> ""]
    /\ wavPc' = "done"
    /\ UNCHANGED <<wavIn, wavData, wavShape, wavOff, wavFmt, wavPcm16>>

\* loop body, any other chunk: offset += 8 + int(chunkSize)
WalkSkip ==
    /\ UNCHANGED notWav
    /\ wavPc = "walk"
    /\ wavOff + 8 <= Len(wavData)
    /\ chunkID # FmtId
    /\ ~(chunkID = DataId /\ wavFmt.found)
    /\ wavOff' = wavOff + 8 + chunkSize
    /\ UNCHANGED <<wavPc, wavIn, wavData, wavShape, wavFmt, wavRet, wavPcm16>>

\* loop exit
WalkEnd ==
    /\ UNCHANGED notWav
    /\ wavPc = "walk"
    /\ wavOff + 8 > Len(wavData)
    /\ wavRet' = Failed("missing fmt or data chunk")
    /\ wavPc' = "done"
    /\ UNCHANGED <<wavIn, wavData, wavShape, wavOff, wavFmt, wavPcm16>>

NextWav ==
    \/ EncodeWav
    \/ ConvertFrame
    \/ DecodeEntry
    \/ WalkFmt
    \/ WalkData
    \/ WalkSkip
    \/ WalkEnd

(***************************************************************************)
(* handleTranscribe and the /health handler, one request                   *)
(*                                                                         *)
(* A file name is the sequence of its characters' codes.  The upload's     *)
(* content is named by what it holds; the decoders themselves are modelled *)
(* in the codec and wav components.                                        *)
(***************************************************************************)
\* "a.wav", "A.WAV", "r.opus", "R.Opus", "a.ogg", "wav", "a.wav.txt"
FileNames ==
    { <<97, 46, 119, 97, 118>>, <<65, 46, 87, 65, 86>>,
      <<114, 46, 111, 112, 117, 115>>, <<82, 46, 79, 112, 117, 115>>,
      <<97, 46, 111, 103, 103>>, <<119, 97, 118>>,
      <<97, 46, 119, 97, 118, 46, 116, 120, 116>> }

\* what the upload holds: a RIFF/WAVE file, a wire stream, either of them
\* with no samples, an Ogg container
Contents == {"wav", "wav0", "wire", "wire0", "ogg"}

AuthHeaders == {"", "Bearer s3", "bearer s3", "Bearer s3x", "s3"}

Tokens == {"", "s3"}

EngineParams == {"", "parakeet", "moonshine", "whisper"}

LangParams == {"", "en", "fr"}

NoFile == [present |-> FALSE, name |-> <<>>, content |-> "wav", readErr |-> FALSE]

Uploads ==
    {NoFile}
      \cup {[present |-> TRUE, name |-> n, content |-> c, readErr |-> FALSE] :
               n \in FileNames, c \in Contents}
      \cup {[present |-> TRUE, name |-> <<97, 46, 119, 97, 118>>,
             content |-> "wav", readErr |-> TRUE]}

\* a lower-casing that leaves the name as it is
ToLowerNone(name) == name

\* strings.ToLower
ToLower(name) ==
    [i \in DOMAIN name |-> IF name[i] \in 65..90 THEN name[i] + 32 ELSE name[i]]

\* strings.HasSuffix
HasSuffix(s, suffix) ==
    /\ Len(s) >= Len(suffix)
    /\ SubSeq(s, Len(s) - Len(suffix) + 1, Len(s)) = suffix

DotWav == <<46, 119, 97, 118>>

DotOpus == <<46, 111, 112, 117, 115>>

\* a check that some Authorization header was sent
AnyHeader(auth, token) == auth # ""

\* auth == "Bearer "+srv.token
Authorized(auth, token) == auth = "Bearer " \o token

\* audio.DecodeWAV(data): samples and rate, or an error
DecodeWAV(content) ==
    IF content = "wav" THEN [err |-> FALSE, n |-> FrameSize, rate |-> SampleRate]
    ELSE IF content = "wav0" THEN [err |-> FALSE, n |-> 0, rate |-> SampleRate]
    ELSE [err |-> TRUE, n |-> 0, rate |-> 0]

\* audio.DecodeOpus(data); frameOk: the Opus decoder accepted the frame
DecodeOpusUpload(content, frameOk) ==
    IF content = "wire" /\ frameOk
      THEN [err |-> FALSE, n |-> FrameSize, rate |-> SampleRate]
    ELSE IF content = "wire0" THEN [err |-> FALSE, n |-> 0, rate |-> SampleRate]
    ELSE [err |-> TRUE, n |-> 0, rate |-> 0]

\* a map with an engine for every language asked for
AnyLang == {"es", "en", "fr", ""}

\* srv.moonshine has the keys "es" and "en"
MoonshineLangs == {"es", "en"}

\* How t.Transcribe(samples, sampleRate) ends.  The lazy wrapper returns an
\* error when the slot cannot be populated.  With the slot populated,
\* moonshineTranscriber takes &samples[0], which panics on an empty slice;
\* parakeet's Model.Transcribe drops the error of ort.NewTensor over the
\* samples and defers Destroy on its result: on an empty slice it may
\* answer, fail or panic.
TranscribeOutcomes(engine, n) ==
    IF n > 0 THEN {"ok", "err"}
    ELSE IF engine = "parakeet" THEN {"ok", "err", "panic"}
    ELSE {"err", "panic"}

InitHandler ==
    /\ hPc = "route"
    /\ hReq \in [path : {"/transcribe", "/health"}, method : {"POST", "GET"},
                 auth : AuthHeaders, engine : EngineParams, lang : LangParams,
                 file : Uploads]
    /\ hSrv \in [token : Tokens, parakeet : BOOLEAN,
                 defaultEng : {"parakeet"}, defaultLang : {"es"}]
    /\ hStatus = 0
    /\ hT = "nil"
    /\ hAudio = [err |-> FALSE, n |-> 0, rate |-> 0]
    /\ hTrace = <<>>

InitHandlerIdle ==
    /\ hPc = "idle"
    /\ hReq = [path |-> "/health", method |-> "GET", auth |-> "", engine |-> "",
               lang |-> "", file |-> NoFile]
    /\ hSrv = [token |-> "", parakeet |-> FALSE, defaultEng |-> "parakeet",
               defaultLang |-> "es"]
    /\ hStatus = 0
    /\ hT = "nil"
    /\ hAudio = [err |-> FALSE, n |-> 0, rate |-> 0]
    /\ hTrace = <<>>

\* http.Error(w, .., code); return
Respond(code) ==
    /\ hStatus' = code
    /\ hPc' = "done"

\* the two registered handlers of main
Route ==
    /\ UNCHANGED notHandler
    /\ hPc = "route"
    /\ IF hReq.path = "/health" THEN Respond(200)
       ELSE IF hReq.method # "POST" THEN Respond(405)
       ELSE hPc' = "auth" /\ UNCHANGED hStatus
    /\ UNCHANGED <<hReq, hSrv, hT, hAudio, hTrace>>

\* handleTranscribe: the token check
Authorize ==
    /\ UNCHANGED notHandler
    /\ hPc = "auth"
    /\ IF hSrv.token # "" /\ ~Authorized(hReq.auth, hSrv.token) THEN Respond(401)
       ELSE hPc' = "select" /\ UNCHANGED hStatus
    /\ UNCHANGED <<hReq, hSrv, hT, hAudio, hTrace>>

\* handleTranscribe: query parameters and the choice of the transcriber
SelectEngine ==
    /\ UNCHANGED notHandler
    /\ hPc = "select"
    /\ LET langCode == IF hReq.lang = "" THEN hSrv.defaultLang ELSE hReq.lang
           engineName == IF hReq.engine = "" THEN hSrv.defaultEng
                         ELSE hReq.engine
       IN IF engineName = "parakeet"
            THEN IF ~hSrv.parakeet THEN Respond(400) /\ UNCHANGED hT
                 ELSE hT' = "parakeet" /\ hPc' = "form" /\ UNCHANGED hStatus
          ELSE IF engineName = "moonshine"
            THEN IF langCode \notin MoonshineLangs
                   THEN Respond(400) /\ UNCHANGED hT
                 ELSE /\ hT' = "moonshine_" \o langCode
                      /\ hPc' = "form"
                      /\ UNCHANGED hStatus
          ELSE Respond(400) /\ UNCHANGED hT
    /\ UNCHANGED <<hReq, hSrv, hAudio, hTrace>>

\* r.FormFile("audio")
FormFile ==
    /\ UNCHANGED notHandler
    /\ hPc = "form"
    /\ hTrace' = Append(hTrace, "form")
    /\ IF ~hReq.file.present THEN Respond(400)
       ELSE hPc' = "read" /\ UNCHANGED hStatus
    /\ UNCHANGED <<hReq, hSrv, hT, hAudio>>

\* io.ReadAll(file)
ReadAll ==
    /\ UNCHANGED notHandler
    /\ hPc = "read"
    /\ hTrace' = Append(hTrace, "read")
    /\ IF hReq.file.readErr THEN Respond(400)
       ELSE hPc' = "decode" /\ UNCHANGED hStatus
    /\ UNCHANGED <<hReq, hSrv, hT, hAudio>>

\* the switch on the lower-cased name, and the check of the decoder's error
DecodeAudio ==
    /\ UNCHANGED notHandler
    /\ hPc = "decode"
    /\ LET name == ToLower(hReq.file.name)
       IN IF HasSuffix(name, DotWav)
            THEN LET a == DecodeWAV(hReq.file.content)
                 IN /\ hTrace' = Append(hTrace, "DecodeWAV")
                    /\ hAudio' = a
                    /\ IF a.err THEN Respond(400)
                       ELSE hPc' = "transcribe" /\ UNCHANGED hStatus
          ELSE IF HasSuffix(name, DotOpus)
            THEN \E frameOk \in BOOLEAN :
                   LET a == DecodeOpusUpload(hReq.file.content, frameOk)
                   IN /\ hTrace' = Append(hTrace, "DecodeOpus")
                      /\ hAudio' = a
                      /\ IF a.err THEN Respond(400)
                         ELSE hPc' = "transcribe" /\ UNCHANGED hStatus
          ELSE Respond(400) /\ UNCHANGED <<hTrace, hAudio>>
    /\ UNCHANGED <<hReq, hSrv, hT>>

\* t.Transcribe(samples, sampleRate): the slot is populated if need be and
\* the engine is run; then the response is written.  A panic unwinds the
\* handler and net/http closes the connection without a response.
TranscribeCall ==
    /\ UNCHANGED notHandler
    /\ hPc = "transcribe"
    /\ hTrace' = Append(hTrace, "Transcribe")
    /\ \E outcome \in TranscribeOutcomes(hT, hAudio.n) :
         IF outcome = "panic" THEN hPc' = "panic" /\ UNCHANGED hStatus
         ELSE Respond(IF outcome = "ok" THEN 200 ELSE 500)
    /\ UNCHANGED <<hReq, hSrv, hT, hAudio>>

NextHandler ==
    \/ Route
    \/ Authorize
    \/ SelectEngine
    \/ FormFile
    \/ ReadAll
    \/ DecodeAudio
    \/ TranscribeCall

(***************************************************************************)
(* lunartlk-client main: from the backup to the end of the run             *)
(***************************************************************************)
\* what os.WriteFile leaves behind: the whole data, or on an error no file
\* or a file cut short
WriteOutcomes == {"whole", "absent", "partial"}

\* what sendToServer returns: a transcript, a transcript without text, or
\* an error (request failed, status other than 200, undecodable response)
SendOutcomes == {"text", "empty", "request failed", "server returned", "decode response"}

InitClient ==
    /\ cPc = "backup"
    /\ cFlags \in [saveWav : BOOLEAN, noSave : BOOLEAN, clipboard : BOOLEAN]
    /\ cFiles = [backup |-> "absent", saveWav |-> "absent", transcript |-> "absent",
                 audio |-> "absent"]
    /\ cSend = "none"
    /\ cLog = <<>>
    /\ cExit = -1

InitClientIdle ==
    /\ cPc = "idle"
    /\ cFlags = [saveWav |-> FALSE, noSave |-> FALSE, clipboard |-> FALSE]
    /\ cFiles = [backup |-> "absent", saveWav |-> "absent", transcript |-> "absent",
                 audio |-> "absent"]
    /\ cSend = "none"
    /\ cLog = <<>>
    /\ cExit = -1

\* os.WriteFile(backupPath, wavData, 0644); a failure is only reported
WriteBackup ==
    /\ UNCHANGED notClient
    /\ cPc = "backup"
    /\ \E w \in WriteOutcomes :
         /\ cFiles' = [cFiles EXCEPT !.backup = w]
         /\ cLog' = cLog \o (IF w = "whole" THEN <<"WriteFile backup">>
                             ELSE <<"WriteFile backup", "Failed to save backup">>)
    /\ cPc' = "saveWav"
    /\ UNCHANGED <<cFlags, cSend, cExit>>

\* if *saveWav != "" { os.WriteFile(*saveWav, ..) }
WriteSaveWav ==
    /\ UNCHANGED notClient
    /\ cPc = "saveWav"
    /\ IF cFlags.saveWav
         THEN \E w \in WriteOutcomes :
                /\ cFiles' = [cFiles EXCEPT !.saveWav = w]
                /\ cLog' = Append(cLog, IF w = "whole" THEN "Saved to"
                                        ELSE "Failed to save WAV")
         ELSE UNCHANGED <<cFiles, cLog>>
    /\ cPc' = "send"
    /\ UNCHANGED <<cFlags, cSend, cExit>>

\* resp, err := sendToServer(transcribeURL, opusData, "recording.opus", *token)
SendToServer ==
    /\ UNCHANGED notClient
    /\ cPc = "send"
    /\ \E r \in SendOutcomes : cSend' = r
    /\ cLog' = cLog \o <<"Sending to server", "sendToServer">>
    /\ cPc' = "sent"
    /\ UNCHANGED <<cFlags, cFiles, cExit>>

\* if err != nil: the two messages and os.Exit(1)
ServerError ==
    /\ UNCHANGED notClient
    /\ cPc = "sent"
    /\ cSend \notin {"text", "empty"}
    /\ cLog' = cLog \o <<"Server error", "Audio saved at backupPath">>
    /\ cExit' = 1
    /\ cPc' = "exited"
    /\ UNCHANGED <<cFlags, cFiles, cSend>>

\* os.Remove(backupPath); saveTranscript, saveAudio unless -no-save
RemoveBackup ==
    /\ UNCHANGED notClient
    /\ cPc = "sent"
    /\ cSend \in {"text", "empty"}
    /\ cLog' = Append(cLog, "Remove backup")
    /\ \E wt \in WriteOutcomes, wa \in WriteOutcomes :
         cFiles' = IF cFlags.noSave THEN [cFiles EXCEPT !.backup = "absent"]
                   ELSE [cFiles EXCEPT !.backup = "absent", !.transcript = wt,
                                       !.audio = wa]
    /\ cPc' = "print"
    /\ UNCHANGED <<cFlags, cSend, cExit>>

\* "No speech detected." or the transcript, and the clipboard copy
PrintTranscript ==
    /\ UNCHANGED notClient
    /\ cPc = "print"
    /\ cLog' = IF cSend = "empty" THEN Append(cLog, "No speech detected")
               ELSE IF cFlags.clipboard THEN cLog \o <<"text", "wl-copy">>
               ELSE Append(cLog, "text")
    /\ cExit' = 0
    /\ cPc' = "exited"
    /\ UNCHANGED <<cFlags, cFiles, cSend>>

NextClient ==
    \/ WriteBackup
    \/ WriteSaveWav
    \/ SendToServer
    \/ ServerError
    \/ RemoveBackup
    \/ PrintTranscript

(***************************************************************************)
(* One StreamEncoder shared by several goroutines                          *)
(*                                                                         *)
(* The methods of the encoder taken statement by statement, each goroutine *)
(* at its own position.  s.buf, s.out and s.frames are the variables of    *)
(* the codec component.                                                    *)
(***************************************************************************)
\* calls made on the encoder, over all goroutines
MaxOps == 2

Goroutines == {1, 2}

\* Sample counts of a Write on the shared encoder.
SessionWrites == {1, 640}

SessionOps ==
    [name : {"Write"}, n : SessionWrites]
        \cup [name : {"Flush", "Bytes", "OggBytes"}, n : {0}]

NoOp == [name |-> "none", n |-> 0]

\* a lock that lets everyone in
LockAlways(holder) == TRUE

\* s.mu.Lock() returns when nobody holds the mutex
LockFree(holder) == holder = 0

InitSession ==
    /\ encLen \in {f \in [1..2 -> FrameLens] : f[1] # f[2]}
    /\ buf = <<>>
    /\ out = <<>>
    /\ frames = <<>>
    /\ pcmLog = <<>>
    /\ hist = <<>>
    /\ fed = 0
    /\ dec = [NoDecode EXCEPT !.done = TRUE]
    /\ smu = 0
    /\ spc = [g \in Goroutines |-> "idle"]
    /\ sop = [g \in Goroutines |-> [op |-> NoOp, calls |-> 0, frame |-> <<>>]]
    /\ snaps = <<>>

InitSessionIdle ==
    /\ smu = 0
    /\ spc = [g \in Goroutines |-> "idle"]
    /\ sop = [g \in Goroutines |-> [op |-> NoOp, calls |-> 0, frame |-> <<>>]]
    /\ snaps = <<>>

SessionRest == <<encLen, pcmLog, hist, dec>>

\* a goroutine calls a method of the encoder
Call(g, op) ==
    /\ UNCHANGED notSession /\ UNCHANGED SessionRest
    /\ spc[g] = "idle"
    /\ sop[1].calls + sop[2].calls < MaxOps
    /\ sop' = [sop EXCEPT ![g] = [op |-> op, calls |-> @.calls + 1,
                                  frame |-> <<>>]]
    /\ spc' = [spc EXCEPT ![g] = "Lock"]
    /\ UNCHANGED <<buf, out, frames, fed, smu, snaps>>

\* s.mu.Lock(), the first statement of every method
Lock(g) ==
    /\ UNCHANGED notSession /\ UNCHANGED SessionRest
    /\ spc[g] = "Lock"
    /\ LockFree(smu)
    /\ smu' = g
    /\ spc' = [spc EXCEPT ![g] = sop[g].op.name]
    /\ UNCHANGED <<buf, out, frames, fed, sop, snaps>>

\* the deferred s.mu.Unlock() and the return
Unlock(g) ==
    /\ smu' = 0
    /\ spc' = [spc EXCEPT ![g] = "idle"]

\* Write: s.buf = append(s.buf, samples...)
WriteAppend(g) ==
    /\ UNCHANGED notSession /\ UNCHANGED SessionRest
    /\ spc[g] = "Write"
    /\ buf' = buf \o [i \in 1..sop[g].op.n |-> fed + i]
    /\ fed' = fed + sop[g].op.n
    /\ spc' = [spc EXCEPT ![g] = "loop"]
    /\ UNCHANGED <<out, frames, smu, sop, snaps>>

\* Write: the loop test, the frame cut from s.buf and s.enc.Encode
WriteEncode(g) ==
    /\ UNCHANGED notSession /\ UNCHANGED SessionRest
    /\ spc[g] = "loop"
    /\ IF ~HasFullFrame(buf)
         THEN Unlock(g) /\ UNCHANGED <<buf, sop>>
         ELSE /\ buf' = SubSeq(buf, FrameSize + 1, Len(buf))
              /\ \/ Unlock(g) /\ UNCHANGED sop
                 \/ /\ sop' = [sop EXCEPT ![g].frame =
                                 FrameBytes(SubSeq(buf, 1, FrameSize),
                                            encLen[(Len(frames) % 2) + 1])]
                    /\ spc' = [spc EXCEPT ![g] = "prefix"]
                    /\ UNCHANGED smu
    /\ UNCHANGED <<out, frames, fed, snaps>>

\* Flush: the emptiness test, the padded frame and s.enc.Encode
FlushEncode(g) ==
    /\ UNCHANGED notSession /\ UNCHANGED SessionRest
    /\ spc[g] = "Flush"
    /\ IF ~FlushNeeded(buf)
         THEN Unlock(g) /\ UNCHANGED <<buf, sop>>
         ELSE /\ buf' = <<>>
              /\ \/ Unlock(g) /\ UNCHANGED sop
                 \/ /\ sop' = [sop EXCEPT ![g].frame =
                                 FrameBytes(PadFrame(buf),
                                            encLen[(Len(frames) % 2) + 1])]
                    /\ spc' = [spc EXCEPT ![g] = "prefix"]
                    /\ UNCHANGED smu
    /\ UNCHANGED <<out, frames, fed, snaps>>

\* binary.Write(&s.out, binary.LittleEndian, uint16(n))
PutLength(g) ==
    /\ UNCHANGED notSession /\ UNCHANGED SessionRest
    /\ spc[g] = "prefix"
    /\ out' = out \o U16LE(Len(sop[g].frame))
    /\ spc' = [spc EXCEPT ![g] = "body"]
    /\ UNCHANGED <<buf, frames, fed, smu, sop, snaps>>

\* s.out.Write(s.frame[:n])
PutFrame(g) ==
    /\ UNCHANGED notSession /\ UNCHANGED SessionRest
    /\ spc[g] = "body"
    /\ out' = out \o sop[g].frame
    /\ spc' = [spc EXCEPT ![g] = "keep"]
    /\ UNCHANGED <<buf, frames, fed, smu, sop, snaps>>

\* s.frames = append(s.frames, frameCopy); Write loops, Flush returns
KeepFrame(g) ==
    /\ UNCHANGED notSession /\ UNCHANGED SessionRest
    /\ spc[g] = "keep"
    /\ frames' = Append(frames, sop[g].frame)
    /\ IF sop[g].op.name = "Write"
         THEN spc' = [spc EXCEPT ![g] = "loop"] /\ UNCHANGED smu
         ELSE Unlock(g)
    /\ UNCHANGED <<buf, out, fed, sop, snaps>>

\* Bytes: return s.out.Bytes()
TakeBytes(g) ==
    /\ UNCHANGED notSession /\ UNCHANGED SessionRest
    /\ spc[g] = "Bytes"
    /\ snaps' = Append(snaps, [kind |-> "wire", by |-> g, wire |-> out,
                               packets |-> <<>>])
    /\ Unlock(g)
    /\ UNCHANGED <<buf, out, frames, fed, sop>>

\* OggBytes: return OggOpus(s.frames, SampleRate, channels); the container
\* is named by the frames it wraps
TakeOggBytes(g) ==
    /\ UNCHANGED notSession /\ UNCHANGED SessionRest
    /\ spc[g] = "OggBytes"
    /\ snaps' = Append(snaps, [kind |-> "ogg", by |-> g, wire |-> <<>>,
                               packets |-> frames])
    /\ Unlock(g)
    /\ UNCHANGED <<buf, out, frames, fed, sop>>

NextSession ==
    \/ \E g \in Goroutines, op \in SessionOps : Call(g, op)
    \/ \E g \in Goroutines : Lock(g)
    \/ \E g \in Goroutines : WriteAppend(g)
    \/ \E g \in Goroutines : WriteEncode(g)
    \/ \E g \in Goroutines : FlushEncode(g)
    \/ \E g \in Goroutines : PutLength(g)
    \/ \E g \in Goroutines : PutFrame(g)
    \/ \E g \in Goroutines : KeepFrame(g)
    \/ \E g \in Goroutines : TakeBytes(g)
    \/ \E g \in Goroutines : TakeOggBytes(g)

(***************************************************************************)
(* Recorder: Start, capture, Stop, StartContinuous, StopContinuous         *)
(*                                                                         *)
(* A chunk is named by the number of the stream read that produced it.  A  *)
(* channel is named by the order in which it was made; rClosed holds the   *)
(* closed ones.  The caller is goroutine 0, the capture goroutines are     *)
(* numbered from 1 in the order they were started.                         *)
(***************************************************************************)
MaxCycles == 2

MaxReads == 3

\* NewRecorder(sampleRate, chunkSize)
SampleRates == {4}

ChunkSizes == {2, 4}

\* segmentDuration, in milliseconds
Durations == {500, 1000, 1500}

\* make(chan Segment, 2)
SegmentBuffer == 2

\* int(segmentDuration.Seconds()) * r.sampleRate
samplesPerSegment(ms, rate) == (ms \div 1000) * rate

NewGoroutine(kind) ==
    [kind |-> kind, pc |-> "defer", stoppedCh |-> 0, chunk |-> 0, segment |-> <<>>]

\* a receive that does not wait for the close
ReceivedAnyway(c) == TRUE

\* <-c on a channel nothing is ever sent on: returns once c is closed
Received(c) == c \in rClosed

InitRecorder ==
    /\ recorded = <<>>
    /\ rmu = {}
    /\ rDone = 1
    /\ rStopped = 2
    /\ rMade = 2
    /\ rClosed = {}
    /\ rReads = 0
    /\ rStreamOn = FALSE
    /\ rGo = <<>>
    /\ rMain = [pc |-> "idle", cycles |-> 0, mark |-> 0, samples |-> <<>>,
                err |-> FALSE]
    /\ rRet = <<>>
    /\ rCh = [made |-> FALSE, buf |-> <<>>, closed |-> FALSE]
    /\ rRecv = [got |-> <<>>, consuming |-> TRUE, sawClose |-> FALSE]
    /\ rCfg \in [sampleRate : SampleRates, chunkSize : ChunkSizes,
                 ms : {0}, perSegment : {0}]

InitRecorderIdle ==
    /\ recorded = <<>>
    /\ rmu = {}
    /\ rDone = 1
    /\ rStopped = 2
    /\ rMade = 2
    /\ rClosed = {}
    /\ rReads = 0
    /\ rStreamOn = FALSE
    /\ rGo = <<>>
    /\ rMain = [pc |-> "closed", cycles |-> 0, mark |-> 0, samples |-> <<>>,
                err |-> FALSE]
    /\ rRet = <<>>
    /\ rCh = [made |-> FALSE, buf |-> <<>>, closed |-> FALSE]
    /\ rRecv = [got |-> <<>>, consuming |-> TRUE, sawClose |-> FALSE]
    /\ rCfg = [sampleRate |-> 4, chunkSize |-> 2, ms |-> 0, perSegment |-> 0]

\* close(c); closing a closed channel panics
CloseChan(c) == rClosed' = rClosed \cup {c}

\* ---- Start and Stop ---------------------------------------------------
\* Start: r.stream.Start(), then go r.capture()
Start(maxCycles) ==
    /\ UNCHANGED notRecorder
    /\ rMain.pc = "idle"
    /\ rMain.cycles < maxCycles
    /\ \/ /\ rMain' = [rMain EXCEPT !.err = TRUE, !.cycles = @ + 1]
          /\ UNCHANGED <<rStreamOn, rGo>>
       \/ /\ rStreamOn' = TRUE
          /\ rGo' = Append(rGo, NewGoroutine("capture"))
          /\ rMain' = [rMain EXCEPT !.pc = "recording", !.err = FALSE,
                                    !.mark = rReads]
    /\ UNCHANGED <<recorded, rmu, rDone, rStopped, rMade, rClosed, rReads,
                   rRet, rCh, rRecv, rCfg>>

\* capture: defer close(r.stopped) takes the channel in r.stopped now
CaptureDefer(g) ==
    /\ UNCHANGED notRecorder
    /\ rGo[g].kind = "capture" /\ rGo[g].pc = "defer"
    /\ rGo' = [rGo EXCEPT ![g].stoppedCh = rStopped, ![g].pc = "select"]
    /\ UNCHANGED <<recorded, rmu, rDone, rStopped, rMade, rClosed, rReads,
                   rStreamOn, rMain, rRet, rCh, rRecv, rCfg>>

\* capture: select { case <-r.done: return; default: }
CaptureSelect(g) ==
    /\ UNCHANGED notRecorder
    /\ rGo[g].kind = "capture" /\ rGo[g].pc = "select"
    /\ rGo' = [rGo EXCEPT ![g].pc = IF rDone \in rClosed THEN "return"
                                    ELSE "read"]
    /\ UNCHANGED <<recorded, rmu, rDone, rStopped, rMade, rClosed, rReads,
                   rStreamOn, rMain, rRet, rCh, rRecv, rCfg>>

\* capture: r.stream.Read() and the copy out of r.buf
CaptureRead(g, maxReads) ==
    /\ UNCHANGED notRecorder
    /\ rGo[g].kind = "capture" /\ rGo[g].pc = "read"
    /\ \/ /\ rReads < maxReads
          /\ rReads' = rReads + 1
          /\ rGo' = [rGo EXCEPT ![g].chunk = rReads + 1, ![g].pc = "lock"]
       \/ /\ rGo' = [rGo EXCEPT ![g].pc = "return"]
          /\ UNCHANGED rReads
    /\ UNCHANGED <<recorded, rmu, rDone, rStopped, rMade, rClosed,
                   rStreamOn, rMain, rRet, rCh, rRecv, rCfg>>

\* capture: r.mu.Lock()
CaptureLock(g) ==
    /\ UNCHANGED notRecorder
    /\ rGo[g].kind = "capture" /\ rGo[g].pc = "lock"
    /\ rmu = {}
    /\ rmu' = {g}
    /\ rGo' = [rGo EXCEPT ![g].pc = "append"]
    /\ UNCHANGED <<recorded, rDone, rStopped, rMade, rClosed, rReads,
                   rStreamOn, rMain, rRet, rCh, rRecv, rCfg>>

\* capture: r.recorded = append(r.recorded, chunk...)
CaptureAppend(g) ==
    /\ UNCHANGED notRecorder
    /\ rGo[g].kind = "capture" /\ rGo[g].pc = "append"
    /\ recorded' = Append(recorded, rGo[g].chunk)
    /\ rGo' = [rGo EXCEPT ![g].pc = "unlock"]
    /\ UNCHANGED <<rmu, rDone, rStopped, rMade, rClosed, rReads,
                   rStreamOn, rMain, rRet, rCh, rRecv, rCfg>>

\* capture: r.mu.Unlock()
CaptureUnlock(g) ==
    /\ UNCHANGED notRecorder
    /\ rGo[g].kind = "capture" /\ rGo[g].pc = "unlock"
    /\ rmu' = {}
    /\ rGo' = [rGo EXCEPT ![g].pc = "select"]
    /\ UNCHANGED <<recorded, rDone, rStopped, rMade, rClosed, rReads,
                   rStreamOn, rMain, rRet, rCh, rRecv, rCfg>>

\* the deferred close(r.stopped) of either goroutine
CloseStopped(g) ==
    /\ UNCHANGED notRecorder
    /\ rGo[g].pc = "return"
    /\ IF rGo[g].stoppedCh \in rClosed
         THEN rGo' = [rGo EXCEPT ![g].pc = "panic"] /\ UNCHANGED rClosed
         ELSE rGo' = [rGo EXCEPT ![g].pc = "exited"]
              /\ CloseChan(rGo[g].stoppedCh)
    /\ UNCHANGED <<recorded, rmu, rDone, rStopped, rMade, rReads,
                   rStreamOn, rMain, rRet, rCh, rRecv, rCfg>>

\* Stop and StopContinuous: close(r.done)
CloseDone ==
    /\ UNCHANGED notRecorder
    /\ rMain.pc \in {"recording", "streaming"}
    /\ IF rDone \in rClosed
         THEN rMain' = [rMain EXCEPT !.pc = "panic"] /\ UNCHANGED rClosed
         ELSE rMain' = [rMain EXCEPT !.pc = IF @ = "recording" THEN "wait"
                                            ELSE "waitContinuous"]
              /\ CloseChan(rDone)
    /\ UNCHANGED <<recorded, rmu, rDone, rStopped, rMade, rReads,
                   rStreamOn, rGo, rRet, rCh, rRecv, rCfg>>

\* Stop: <-r.stopped; r.stream.Stop()
StopWait ==
    /\ UNCHANGED notRecorder
    /\ rMain.pc = "wait"
    /\ Received(rStopped)
    /\ rStreamOn' = FALSE
    /\ rMain' = [rMain EXCEPT !.pc = "lock"]
    /\ UNCHANGED <<recorded, rmu, rDone, rStopped, rMade, rClosed, rReads,
                   rGo, rRet, rCh, rRecv, rCfg>>

\* Stop: r.mu.Lock()
StopLock ==
    /\ UNCHANGED notRecorder
    /\ rMain.pc = "lock"
    /\ rmu = {}
    /\ rmu' = {0}
    /\ rMain' = [rMain EXCEPT !.pc = "take"]
    /\ UNCHANGED <<recorded, rDone, rStopped, rMade, rClosed, rReads,
                   rStreamOn, rGo, rRet, rCh, rRecv, rCfg>>

\* Stop: samples := r.recorded; r.recorded = nil
StopTake ==
    /\ UNCHANGED notRecorder
    /\ rMain.pc = "take"
    /\ rMain' = [rMain EXCEPT !.samples = recorded, !.pc = "unlock"]
    /\ recorded' = <<>>
    /\ UNCHANGED <<rmu, rDone, rStopped, rMade, rClosed, rReads,
                   rStreamOn, rGo, rRet, rCh, rRecv, rCfg>>

\* Stop: r.mu.Unlock()
StopUnlock ==
    /\ UNCHANGED notRecorder
    /\ rMain.pc = "unlock"
    /\ rmu' = {}
    /\ rMain' = [rMain EXCEPT !.pc = "reset"]
    /\ UNCHANGED <<recorded, rDone, rStopped, rMade, rClosed, rReads,
                   rStreamOn, rGo, rRet, rCh, rRecv, rCfg>>

\* Stop: r.done = make(..); r.stopped = make(..); return samples
StopReset ==
    /\ UNCHANGED notRecorder
    /\ rMain.pc = "reset"
    /\ rDone' = rMade + 1
    /\ rStopped' = rMade + 2
    /\ rMade' = rMade + 2
    /\ rRet' = Append(rRet, [samples |-> rMain.samples, mark |-> rMain.mark,
                             reads |-> rReads])
    /\ rMain' = [rMain EXCEPT !.pc = "idle", !.cycles = @ + 1,
                              !.samples = <<>>]
    /\ UNCHANGED <<recorded, rmu, rClosed, rReads, rStreamOn, rGo, rCh,
                   rRecv, rCfg>>

\* ---- StartContinuous and StopContinuous -------------------------------
\* StartContinuous up to "go func()"
StartContinuous(ms) ==
    /\ UNCHANGED notRecorder
    /\ rMain.pc = "idle"
    /\ rMain.cycles = 0
    /\ \/ /\ rMain' = [rMain EXCEPT !.err = TRUE, !.cycles = @ + 1]
          /\ UNCHANGED <<rStreamOn, rGo, rDone, rStopped, rMade, rCh, rCfg>>
       \/ /\ rStreamOn' = TRUE
          /\ rDone' = rMade + 1
          /\ rStopped' = rMade + 2
          /\ rMade' = rMade + 2
          /\ rCh' = [made |-> TRUE, buf |-> <<>>, closed |-> FALSE]
          /\ rCfg' = [rCfg EXCEPT !.ms = ms,
                        !.perSegment = samplesPerSegment(ms, rCfg.sampleRate)]
          /\ rGo' = Append(rGo, NewGoroutine("continuous"))
          /\ rMain' = [rMain EXCEPT !.pc = "streaming", !.mark = rReads]
    /\ UNCHANGED <<recorded, rmu, rClosed, rReads, rRet, rRecv>>

\* the goroutine: defer close(r.stopped); defer close(ch)
ContinuousDefer(g) ==
    /\ UNCHANGED notRecorder
    /\ rGo[g].kind = "continuous" /\ rGo[g].pc = "defer"
    /\ rGo' = [rGo EXCEPT ![g].stoppedCh = rStopped, ![g].pc = "select"]
    /\ UNCHANGED <<recorded, rmu, rDone, rStopped, rMade, rClosed, rReads,
                   rStreamOn, rMain, rRet, rCh, rRecv, rCfg>>

\* the goroutine: select { case <-r.done: ..; default: }
ContinuousSelect(g) ==
    /\ UNCHANGED notRecorder
    /\ rGo[g].kind = "continuous" /\ rGo[g].pc = "select"
    /\ rGo' = [rGo EXCEPT ![g].pc =
                 IF rDone \notin rClosed THEN "read"
                 ELSE IF Len(rGo[g].segment) > 0 THEN "deliver"
                 ELSE "close"]
    /\ UNCHANGED <<recorded, rmu, rDone, rStopped, rMade, rClosed, rReads,
                   rStreamOn, rMain, rRet, rCh, rRecv, rCfg>>

\* the goroutine: r.stream.Read(), the append to segment and the length test
ContinuousRead(g, maxReads) ==
    /\ UNCHANGED notRecorder
    /\ rGo[g].kind = "continuous" /\ rGo[g].pc = "read"
    /\ \/ /\ rReads < maxReads
          /\ rReads' = rReads + 1
          /\ LET segment == Append(rGo[g].segment, rReads + 1)
             IN rGo' = [rGo EXCEPT ![g].segment = segment,
                          ![g].pc = IF Len(segment) * rCfg.chunkSize
                                         >= rCfg.perSegment
                                    THEN "send" ELSE "select"]
       \/ /\ rGo' = [rGo EXCEPT ![g].pc = "close"]
          /\ UNCHANGED rReads
    /\ UNCHANGED <<recorded, rmu, rDone, rStopped, rMade, rClosed,
                   rStreamOn, rMain, rRet, rCh, rRecv, rCfg>>

\* the goroutine: ch <- Segment{Samples: segment}, in the loop or on done
ContinuousSend(g) ==
    /\ UNCHANGED notRecorder
    /\ rGo[g].kind = "continuous" /\ rGo[g].pc \in {"send", "deliver"}
    /\ Len(rCh.buf) < SegmentBuffer
    /\ rCh' = [rCh EXCEPT !.buf = Append(@, rGo[g].segment)]
    /\ rGo' = [rGo EXCEPT ![g].segment = IF rGo[g].pc = "send" THEN <<>> ELSE @,
                          ![g].pc = IF @ = "send" THEN "select" ELSE "close"]
    /\ UNCHANGED <<recorded, rmu, rDone, rStopped, rMade, rClosed, rReads,
                   rStreamOn, rMain, rRet, rRecv, rCfg>>

\* the goroutine: the deferred close(ch)
ContinuousClose(g) ==
    /\ UNCHANGED notRecorder
    /\ rGo[g].kind = "continuous" /\ rGo[g].pc = "close"
    /\ rCh' = [rCh EXCEPT !.closed = TRUE]
    /\ rGo' = [rGo EXCEPT ![g].pc = "return"]
    /\ UNCHANGED <<recorded, rmu, rDone, rStopped, rMade, rClosed, rReads,
                   rStreamOn, rMain, rRet, rRecv, rCfg>>

\* the consumer: one receive from the channel StartContinuous returned
Receive ==
    /\ UNCHANGED notRecorder
    /\ rCh.made /\ rRecv.consuming /\ ~rRecv.sawClose
    /\ IF Len(rCh.buf) > 0
         THEN /\ rRecv' = [rRecv EXCEPT !.got = Append(@, Head(rCh.buf))]
              /\ rCh' = [rCh EXCEPT !.buf = Tail(@)]
         ELSE /\ rCh.closed
              /\ rRecv' = [rRecv EXCEPT !.sawClose = TRUE]
              /\ UNCHANGED rCh
    /\ UNCHANGED <<recorded, rmu, rDone, rStopped, rMade, rClosed, rReads,
                   rStreamOn, rGo, rMain, rRet, rCfg>>

\* the consumer stops receiving
StopReceiving ==
    /\ UNCHANGED notRecorder
    /\ rCh.made /\ rRecv.consuming /\ ~rRecv.sawClose
    /\ rRecv' = [rRecv EXCEPT !.consuming = FALSE]
    /\ UNCHANGED <<recorded, rmu, rDone, rStopped, rMade, rClosed, rReads,
                   rStreamOn, rGo, rMain, rRet, rCh, rCfg>>

\* StopContinuous: <-r.stopped; r.stream.Stop()
StopContinuousWait ==
    /\ UNCHANGED notRecorder
    /\ rMain.pc = "waitContinuous"
    /\ Received(rStopped)
    /\ rStreamOn' = FALSE
    /\ rMain' = [rMain EXCEPT !.pc = "idle", !.cycles = @ + 1]
    /\ UNCHANGED <<recorded, rmu, rDone, rStopped, rMade, rClosed, rReads,
                   rGo, rRet, rCh, rRecv, rCfg>>

Capture(g, maxReads) ==
    \/ CaptureDefer(g)
    \/ CaptureSelect(g)
    \/ CaptureRead(g, maxReads)
    \/ CaptureLock(g)
    \/ CaptureAppend(g)
    \/ CaptureUnlock(g)
    \/ CloseStopped(g)

Stop ==
    \/ CloseDone
    \/ StopWait
    \/ StopLock
    \/ StopTake
    \/ StopUnlock
    \/ StopReset

NextRecorder ==
    \/ Start(MaxCycles)
    \/ \E g \in DOMAIN rGo : Capture(g, MaxReads)
    \/ Stop

NextContinuous ==
    \/ \E ms \in Durations : StartContinuous(ms)
    \/ \E g \in DOMAIN rGo :
         \/ ContinuousDefer(g)
         \/ ContinuousSelect(g)
         \/ ContinuousRead(g, MaxReads)
         \/ ContinuousSend(g)
         \/ ContinuousClose(g)
         \/ CloseStopped(g)
    \/ Receive
    \/ StopReceiving
    \/ CloseDone
    \/ StopContinuousWait

\* One recording cycle; what it returned is then encoded by goroutines
\* sharing one encoder.
Recorded == rMain.pc = "idle" /\ rMain.cycles = 1

NextShared ==
    \/ Start(1)
    \/ \E g \in DOMAIN rGo : Capture(g, 1)
    \/ Stop
    \/ Recorded /\ NextSession

(***************************************************************************)
(* Specifications: one component runs, the others stay as constructed      *)
(***************************************************************************)
ArgmaxInit == InitArgmax /\ InitServe /\ InitDecodeIdle /\ InitTwinIdle /\ InitCodecIdle /\ InitOggIdle /\ InitWavIdle /\ InitHandlerIdle
    /\ InitClientIdle /\ InitSessionIdle /\ InitRecorderIdle

SpecArgmax == ArgmaxInit /\ [][NextArgmax]_vars

TwinInit == InitTwin /\ InitServe /\ InitDecodeIdle /\ InitArgmaxIdle /\ InitCodecIdle /\ InitOggIdle /\ InitWavIdle /\ InitHandlerIdle
    /\ InitClientIdle /\ InitSessionIdle /\ InitRecorderIdle

SpecTwin == TwinInit /\ [][NextTwin]_vars

CodecInit ==
    /\ InitCodec /\ InitServe /\ InitDecodeIdle /\ InitArgmaxIdle
    /\ InitTwinIdle /\ InitOggIdle
    /\ InitWavIdle /\ InitHandlerIdle
    /\ InitClientIdle /\ InitSessionIdle /\ InitRecorderIdle

OggInit ==
    /\ InitOgg /\ InitServe /\ InitDecodeIdle /\ InitArgmaxIdle
    /\ InitTwinIdle /\ InitCodecIdle
    /\ InitWavIdle /\ InitHandlerIdle
    /\ InitClientIdle /\ InitSessionIdle /\ InitRecorderIdle

SpecOgg == OggInit /\ [][NextOgg]_vars

SpecCodec == CodecInit /\ [][NextCodec]_vars

LacingInit ==
    /\ InitLacing /\ InitServe /\ InitDecodeIdle /\ InitArgmaxIdle
    /\ InitTwinIdle /\ InitCodecIdle
    /\ InitWavIdle /\ InitHandlerIdle
    /\ InitClientIdle /\ InitSessionIdle /\ InitRecorderIdle

SpecLacing == LacingInit /\ [][NextOgg]_vars

\* One decodeTDT call on its own; no request is being served.
DecodeInit == InitDecode /\ InitServe /\ InitArgmaxIdle /\ InitTwinIdle /\ InitCodecIdle /\ InitOggIdle /\ InitWavIdle /\ InitHandlerIdle
    /\ InitClientIdle /\ InitSessionIdle /\ InitRecorderIdle

SpecDecode == DecodeInit /\ [][NextDecode]_vars

\* The server after main() registered its loaders; no decode is traced.
ServeInit == InitServe /\ InitDecodeIdle /\ InitArgmaxIdle /\ InitTwinIdle /\ InitCodecIdle /\ InitOggIdle /\ InitWavIdle /\ InitHandlerIdle
    /\ InitClientIdle /\ InitSessionIdle /\ InitRecorderIdle

SpecServe == ServeInit /\ [][NextServe]_vars

\* The Go scheduler runs every runnable goroutine, the calls into the model
\* store and the engines return, and a goroutine waiting for a mutex that
\* stays free gets it.
Proceed(r) ==
    \/ LazyLock(r)
    \/ LazyCheck(r)
    \/ EnsureModel(r)
    \/ EnsurePreprocessor(r)
    \/ Load(r)
    \/ Take(r)
    \/ BeginInference(r)
    \/ EndInference(r)

ServeFairness == \A r \in Reqs : WF_vars(Proceed(r))

SpecServeFair == ServeInit /\ [][NextServe]_vars /\ ServeFairness

WavInit ==
    /\ InitWav /\ InitServe /\ InitDecodeIdle /\ InitArgmaxIdle
    /\ InitTwinIdle /\ InitCodecIdle /\ InitOggIdle /\ InitHandlerIdle
    /\ InitClientIdle /\ InitSessionIdle /\ InitRecorderIdle

SpecWav == WavInit /\ [][NextWav]_vars

HandlerInit ==
    /\ InitHandler /\ InitServe /\ InitDecodeIdle /\ InitArgmaxIdle
    /\ InitTwinIdle /\ InitCodecIdle /\ InitOggIdle /\ InitWavIdle
    /\ InitClientIdle /\ InitSessionIdle /\ InitRecorderIdle

SpecHandler == HandlerInit /\ [][NextHandler]_vars

ClientInit ==
    /\ InitClient /\ InitServe /\ InitDecodeIdle /\ InitArgmaxIdle
    /\ InitTwinIdle /\ InitCodecIdle /\ InitOggIdle /\ InitWavIdle
    /\ InitHandlerIdle /\ InitSessionIdle /\ InitRecorderIdle

SpecClient == ClientInit /\ [][NextClient]_vars

SharedInit ==
    /\ InitSession /\ InitRecorder
    /\ InitServe /\ InitDecodeIdle /\ InitArgmaxIdle /\ InitTwinIdle
    /\ InitOggIdle /\ InitWavIdle /\ InitHandlerIdle /\ InitClientIdle

SpecShared == SharedInit /\ [][NextShared]_vars

RecorderInit ==
    /\ InitRecorder /\ InitCodecIdle /\ InitSessionIdle
    /\ InitServe /\ InitDecodeIdle /\ InitArgmaxIdle /\ InitTwinIdle
    /\ InitOggIdle /\ InitWavIdle /\ InitHandlerIdle /\ InitClientIdle

SpecRecorder == RecorderInit /\ [][NextRecorder]_vars

SpecContinuous == RecorderInit /\ [][NextContinuous]_vars

\* The next statement of the goroutine StartContinuous started.
Continuous(g) ==
    \/ ContinuousDefer(g)
    \/ ContinuousSelect(g)
    \/ ContinuousRead(g, MaxReads)
    \/ ContinuousSend(g)
    \/ ContinuousClose(g)
    \/ CloseStopped(g)

\* The scheduler runs the goroutine while it has a statement that can
\* proceed (every r.stream.Read() returns, with a chunk or an error), and
\* StopContinuous goes on when its receive can.  Nothing makes the consumer
\* receive.
ContinuousFairness ==
    /\ WF_vars(\E g \in DOMAIN rGo : Continuous(g))
    /\ WF_vars(StopContinuousWait)

SpecContinuousFair ==
    RecorderInit /\ [][NextContinuous]_vars /\ ContinuousFairness

(***************************************************************************)
(* Serving layer claims (checked under SpecServe)                          *)
(***************************************************************************)
PopulatingPcs == {"ensure", "ensure2", "load"}

\* C1: when no provisioning or load step of a slot fails, exactly one
\* population sequence runs for it however many requests make the first
\* use concurrently; every request that reaches inference holds the handle
\* stored in the slot; and the slot is assigned at most once, so the stored
\* handle is never replaced.
C1_PopulatedExactlyOnce ==
    \A s \in Slots :
       /\ stores[s] <= 1
       /\ (loaded[s] # NoHandle <=> stores[s] = 1)
       /\ (stepFail[s] = 0 => starts[s] <= 1)
       /\ (stepFail[s] = 0 /\ loaded[s] # NoHandle => starts[s] = 1)
       /\ \A r \in Reqs :
            slot[r] = s /\ pc[r] \in {"call", "infer"}
               => t[r] # NoHandle /\ t[r] = loaded[s]

C1_Witness ==
    \E s \in Slots : \E r1, r2 \in Reqs :
       /\ r1 # r2
       /\ slot[r1] = s /\ slot[r2] = s
       /\ firstUse[r1] /\ firstUse[r2]
       /\ pc[r1] = "infer" /\ pc[r2] \in {"call", "infer"}
       /\ t[r1] = loaded[s] /\ t[r2] = loaded[s]
       /\ starts[s] = 1 /\ stepFail[s] = 0

\* C2: no two inference calls are in flight at once against the same
\* handle, for the Parakeet handle and for every Moonshine handle.
C2_OneInferencePerHandle ==
    \A r1, r2 \in Reqs :
       r1 # r2 /\ pc[r1] = "infer" /\ pc[r2] = "infer" => t[r1] # t[r2]

\* C3: a population in which any provisioning step (each asset download)
\* or the load step failed returns an error to its request and leaves no
\* handle behind: no request carries on past population after a failed
\* step, a slot with a failed step and no error return is still being
\* populated, and no handle lacking one of its assets is cached.
C3_FailureNeverCached ==
    /\ \A r \in Reqs : preFail[r] => pc[r] \in PopulatingPcs
    /\ \A s \in Slots :
         /\ (stepFail[s] > 0 /\ fails[s] = 0 => loaded[s] = NoHandle)
         /\ (loaded[s] # NoHandle => loaded[s][3])

\* C4 as stated: over the whole lifetime a slot's population sequence is
\* started at most once, failed populations included.
C4_AtMostOneStartEver == \A s \in Slots : starts[s] <= 1

\* C4 as amended: a population sequence is started only while the slot is
\* unpopulated and no other sequence for it is running, so at most one
\* sequence ever stores a handle and each further start follows an error
\* return of every earlier one.
C4_RestartOnlyAfterFailure ==
    \A s \in Slots :
       /\ starts[s] <= fails[s] + 1
       /\ stores[s] <= 1
       /\ Cardinality({r \in Reqs : slot[r] = s /\ pc[r] \in PopulatingPcs})
             <= 1
       /\ (loaded[s] # NoHandle
             => \A r \in Reqs : slot[r] = s => pc[r] \notin PopulatingPcs)

C4_Witness ==
    \E s \in Slots : starts[s] = 2 /\ fails[s] = 1 /\ stores[s] = 1

\* C5: a request blocked on a lock is blocked by a request for its own
\* slot: neither the lazy loader mutex nor the per-handle mutex it waits
\* for is ever held on behalf of a different slot.
C5_NoCrossSlotWaiting ==
    \A r \in Reqs :
       /\ (pc[r] = "lock" /\ lmu[SlotMutex(slot[r])] # 0
             => slot[lmu[SlotMutex(slot[r])]] = slot[r])
       /\ (pc[r] = "call" /\ HasHandleMutex(t[r]) /\ hmu[t[r]] # 0
             => slot[hmu[t[r]]] = slot[r])

\* Slot A is in the middle of its population while a first-use request for
\* slot B has populated B and is running its inference.
C5_Witness ==
    \E a, b \in Reqs :
       /\ slot[a] # slot[b]
       /\ pc[a] \in PopulatingPcs /\ lmu[SlotMutex(slot[a])] = a
       /\ firstUse[b] /\ pc[b] = "infer" /\ t[b] = loaded[slot[b]]

(***************************************************************************)
(* Decode engine claims (checked under SpecDecode)                         *)
(***************************************************************************)
JointIdx == {i \in DOMAIN calls : calls[i].kind = "joint"}

PredIdx == {i \in DOMAIN calls : calls[i].kind = "pred"}

PredsBefore(i) == Cardinality({j \in PredIdx : j < i})

JointsBefore(i) == Cardinality({j \in JointIdx : j < i})

\* C6: for encodedLen >= 1 the loop enters at most encodedLen iterations,
\* one joint call each, and is never stuck before it has returned.
C6_TerminatesWithinL ==
    encodedLen >= 1 =>
       /\ steps <= encodedLen
       /\ Cardinality(JointIdx) = steps
       /\ (dpc \in {"joint", "pred"} => tpos < encodedLen)
       /\ (dpc \notin {"done", "error"} => ENABLED NextDecode)

C6_Witness ==
    /\ dpc = "done"
    /\ encodedLen >= 2
    /\ steps = encodedLen
    /\ Len(tokens) >= 1

\* C7: every completed step moves t forward by the duration argmax index
\* when that is >= 1 and by 1 when it is 0; t never decreases and a
\* completed step never leaves it in place; the loop runs only while
\* t < encodedLen and returns at the first step that brings t to encodedLen
\* or beyond.
C7_StepAdvance ==
    /\ tpos' >= tpos
    /\ (tpos' # tpos
          => tpos' = tpos + (IF durIdx' >= 1 THEN durIdx' ELSE 1))
    /\ (dpc \in {"joint", "pred"} /\ dpc' \in {"joint", "done"}
          => tpos' > tpos)
    /\ (dpc \in {"joint", "pred"} /\ dpc' = "joint" => tpos' < encodedLen)
    /\ (dpc \in {"joint", "pred"} /\ dpc' # "error" /\ dpc' # "pred"
          /\ tpos' >= encodedLen => dpc' = "done")

C7_ForwardProgress ==
    /\ [][C7_StepAdvance]_vars
    /\ [](dpc \in {"joint", "pred"} => tpos < encodedLen)
    /\ [](dpc = "done" => tpos >= encodedLen)

C7_Witness ==
    /\ dpc = "done"
    /\ \E i, j \in JointIdx : calls[i].dur = 0 /\ calls[j].dur >= 2

\* C8: a step whose best token is the blank leaves tokens, decoder output
\* and recurrent state as they were; a step whose best token is not the
\* blank appends exactly that token and calls the prediction network with
\* that token and the state returned by the most recent earlier
\* prediction-network call (the priming call for the first token); every
\* joint call is given the decoder output of the most recent
\* prediction-network call.
C8_Step ==
    /\ (dpc = "joint" /\ dpc' # "error" /\ bestToken' = blankIdx
          => UNCHANGED <<tokens, decOut, states, newS>>)
    /\ (dpc = "joint" /\ dpc' # "error" /\ bestToken' # blankIdx
          => tokens' = Append(tokens, bestToken') /\ dpc' = "pred")
    /\ (dpc = "pred" /\ dpc' # "error"
          => /\ UNCHANGED tokens
             /\ decOut' = Cardinality(PredIdx')
             /\ newS' = decOut')

C8_Log ==
    \A i \in DOMAIN calls :
       /\ (calls[i].kind = "pred"
             => /\ calls[i].sIn = PredsBefore(i)
                /\ (i = 1 => calls[i].tok = blankIdx)
                /\ (i > 1 => /\ calls[i - 1].kind = "joint"
                             /\ calls[i - 1].tok # blankIdx
                             /\ calls[i].tok = calls[i - 1].tok))
       /\ (calls[i].kind = "joint"
             => /\ i > 1
                /\ calls[i].dIn = PredsBefore(i)
                /\ (calls[i - 1].kind = "joint"
                      => calls[i - 1].tok = blankIdx))

C8_TokenFeedback == [][C8_Step]_vars /\ []C8_Log

C8_Witness ==
    /\ dpc = "done"
    /\ Len(tokens) = 2
    /\ tokens[1] # tokens[2]
    /\ steps = 3

\* C9: if every step's token argmax is the blank, decoding returns no
\* token and the only prediction-network call is the priming call (blank
\* token, zero state); if every step's duration argmax is 0 as well, the
\* steps read frames 0, 1, 2, ... and exactly encodedLen steps are taken.
AllBlank == \A i \in JointIdx : calls[i].ok /\ calls[i].tok = blankIdx

AllDurZero == \A i \in JointIdx : calls[i].dur = 0

C9_AllBlankRun ==
    dpc = "done" /\ AllBlank =>
       /\ tokens = <<>>
       /\ ret.tokens = <<>>
       /\ ~ret.err
       /\ PredIdx = {1}
       /\ calls[1] = PredCall(blankIdx, ZeroState, TRUE)
       /\ (AllDurZero =>
             /\ steps = encodedLen
             /\ tpos = encodedLen
             /\ \A i \in JointIdx : calls[i].frame = JointsBefore(i))

C9_Witness ==
    /\ dpc = "done"
    /\ AllBlank
    /\ AllDurZero
    /\ encodedLen = MaxLen
    /\ steps = MaxLen

\* C10: a failed priming, joint or prediction-network call is the last
\* backend call of the run: decoding takes no step after it, and it
\* returns an error together with no tokens even when tokens had been
\* accepted before the failure.
C10_ErrorState ==
    /\ (dpc = "error" <=> (ret.returned /\ ret.err))
    /\ (dpc = "error"
          => /\ ret.tokens = <<>>
             /\ calls # <<>>
             /\ ~calls[Len(calls)].ok)
    /\ \A i \in DOMAIN calls : ~calls[i].ok => (i = Len(calls) /\ dpc = "error")

C10_FailureAborts ==
    /\ []C10_ErrorState
    /\ [][dpc # "error" /\ ~ret.returned]_vars

C10_Witness ==
    /\ dpc = "error"
    /\ Len(tokens) >= 1
    /\ calls[Len(calls)].kind = "joint"

(***************************************************************************)
(* Argmax claims (checked under SpecArgmax)                                *)
(***************************************************************************)
\* C11: the token argmax over logits[0:V] and the duration argmax over
\* logits[V:V+D] each return an index of their range that attains the
\* maximum of the range and is the lowest index doing so.
C11_ArgmaxLowestIndex ==
    amPc = "done" =>
       /\ amTok \in 0..(VocabSize - 1)
       /\ \A j \in 0..(VocabSize - 1) : amLogits[j] <= amLogits[amTok]
       /\ \A j \in 0..(amTok - 1) : amLogits[j] < amLogits[amTok]
       /\ amDur \in 0..(NumDurations - 1)
       /\ \A j \in 0..(NumDurations - 1) :
             amLogits[VocabSize + j] <= amLogits[VocabSize + amDur]
       /\ \A j \in 0..(amDur - 1) :
             amLogits[VocabSize + j] < amLogits[VocabSize + amDur]

\* A maximum that is attained twice in each range, and not at the first
\* index.
C11_Witness ==
    /\ amPc = "done"
    /\ amTok = 1
    /\ amLogits[0] < amLogits[1]
    /\ amLogits[2] = amLogits[1]
    /\ amDur = 1
    /\ amLogits[VocabSize + 2] = amLogits[VocabSize + 1]
    /\ amLogits[VocabSize] < amLogits[VocabSize + 1]

(***************************************************************************)
(* Determinism claim (checked under SpecTwin)                              *)
(***************************************************************************)
\* C12: two decodeTDT runs on the same encoder output, against a backend
\* that answers equal inputs equally, return the same result (tokens and
\* error) and make the same sequence of backend calls.
C12_SameTokensSameCalls ==
    (tw[1].ret.returned /\ tw[2].ret.returned) =>
        /\ tw[1].ret = tw[2].ret
        /\ tw[1].calls = tw[2].calls

\* Both runs returned two tokens after at least four backend calls.
C12_Witness ==
    /\ tw[1].ret.returned
    /\ tw[2].ret.returned
    /\ ~tw[2].ret.err
    /\ Len(tw[2].ret.tokens) >= 2
    /\ Len(tw[2].calls) >= 4

(***************************************************************************)
(* Stream encoder and wire stream claims (checked under SpecCodec)         *)
(***************************************************************************)
\* The wire stream that describes the frames fs: for each frame its length
\* as two bytes, low byte first, then its bytes.
RECURSIVE WireOf(_)
WireOf(fs) ==
    IF fs = <<>> THEN <<>>
    ELSE <<Len(Head(fs)) % 256, Len(Head(fs)) \div 256>> \o Head(fs)
            \o WireOf(Tail(fs))

C13_WritesOnly == \A i \in DOMAIN hist : hist[i].op = "write" /\ hist[i].ok

\* C13: after successful Write calls on a fresh encoder, with fed samples
\* written in total, floor(fed/320) frames were emitted, frame k encodes
\* samples 320(k-1)+1 .. 320k of the input, and the buffer holds the
\* remaining fed mod 320 samples, whatever the split into calls was.
C13_FramesFromWrites ==
    C13_WritesOnly =>
       /\ Len(frames) = fed \div 320
       /\ Len(pcmLog) = Len(frames)
       /\ \A k \in DOMAIN pcmLog : pcmLog[k] = [i \in 1..320 |-> 320 * (k - 1) + i]
       /\ Len(buf) = fed % 320
       /\ Len(buf) < 320
       /\ buf = [i \in 1..Len(buf) |-> 320 * Len(frames) + i]

\* 319 + 1 + 319 samples in three calls: one frame out, 319 samples left.
C13_Witness ==
    /\ C13_WritesOnly
    /\ Len(hist) = 3
    /\ hist[1].n = 319
    /\ hist[2].n = 1
    /\ Len(frames) = 1
    /\ Len(buf) = 319

C14_FlushStep ==
    /\ Len(hist') = Len(hist) + 1
    /\ hist'[Len(hist')].op = "flush"

C14_WriteThenFlush ==
    /\ Len(hist) = 2
    /\ hist[1] = [op |-> "write", n |-> 320, ok |-> TRUE]
    /\ hist[2].op = "flush"

\* C14: a Flush that returns without error on 1..319 buffered samples emits
\* exactly one frame, made from the buffered samples followed by zeros up
\* to 320, and empties the buffer; a Flush on an empty buffer changes
\* nothing; 320 samples written and then flushed give exactly one frame.
C14_Flush ==
    /\ [][C14_FlushStep =>
            /\ buf = <<>> =>
                  /\ UNCHANGED <<buf, out, frames, pcmLog>>
                  /\ hist'[Len(hist')].ok
            /\ Len(buf) \in 1..319 =>
                  /\ buf' = <<>>
                  /\ hist'[Len(hist')].ok =>
                        /\ Len(frames') = Len(frames) + 1
                        /\ SubSeq(frames', 1, Len(frames)) = frames
                        /\ pcmLog' = Append(pcmLog,
                              buf \o [i \in 1..(320 - Len(buf)) |-> 0])]_vars
    /\ [](C14_WriteThenFlush => Len(frames) = 1 /\ hist[2].ok /\ buf = <<>>)

\* One sample written, flushed into a padded frame, flushed again.
C14_Witness ==
    /\ Len(hist) = 3
    /\ hist[1] = [op |-> "write", n |-> 1, ok |-> TRUE]
    /\ hist[2] = [op |-> "flush", n |-> 0, ok |-> TRUE]
    /\ hist[3] = [op |-> "flush", n |-> 0, ok |-> TRUE]
    /\ Len(frames) = 1
    /\ pcmLog[1][1] = 1
    /\ pcmLog[1][2] = 0
    /\ buf = <<>>

\* C15: after any Write and Flush calls the wire stream is exactly the
\* concatenation, in emission order, of a two-byte little-endian length and
\* the frame's bytes for every frame of the retained frame list, and
\* nothing else.
C15_WireMatchesFrames == Bytes = WireOf(frames)

\* Three frames, the first 258 bytes long, after a Flush and a failed call.
C15_Witness ==
    /\ Len(frames) = 3
    /\ Len(frames[1]) = 258
    /\ out[1] = 2
    /\ out[2] = 1
    /\ \E i \in DOMAIN hist : hist[i].op = "flush" /\ hist[i].ok
    /\ \E i \in DOMAIN hist : ~hist[i].ok

C16_WriteThenFlush ==
    /\ hist # <<>>
    /\ \A i \in DOMAIN hist :
          /\ hist[i].ok
          /\ hist[i].op = IF i = Len(hist) THEN "flush" ELSE "write"

RECURSIVE SampleCount(_)
SampleCount(chunks) ==
    IF chunks = <<>> THEN 0 ELSE Head(chunks).n + SampleCount(Tail(chunks))

\* C16: fed samples written and then flushed, all encodes succeeding, and
\* the whole wire stream decoded with every frame decoding to 320 samples:
\* the result is 320 * ceil(fed/320) samples at rate 16000.
C16_RoundTripCount ==
    (C16_WriteThenFlush /\ dec.done /\ dec.given = Len(out) /\ dec.failAt = 0) =>
        /\ ~dec.err
        /\ SampleCount(dec.chunks) = 320 * ((fed + 319) \div 320)
        /\ dec.rate = 16000

\* 959 samples in two calls, flushed and decoded: 960 samples.
C16_Witness ==
    /\ C16_WriteThenFlush
    /\ fed = 959
    /\ dec.done
    /\ dec.given = Len(out)
    /\ dec.failAt = 0
    /\ SampleCount(dec.chunks) = 960

\* The input of the DecodeOpus call is the records of the first k frames.
C17_WholeRecords ==
    \E k \in 0..Len(frames) :
        SubSeq(out, 1, dec.given) = WireOf(SubSeq(frames, 1, k))

\* C17: DecodeOpus returns samples exactly when its input is a whole number
\* of length-prefixed records and every frame decodes; otherwise it returns
\* an error, no samples and rate 0.  On success the frames decoded are the
\* records of the input, in stream order, to its end.
C17_AllOrNothing ==
    dec.done =>
       /\ dec.err <=> ~(C17_WholeRecords /\ dec.failAt = 0)
       /\ dec.err => dec.chunks = <<>> /\ dec.rate = 0
       /\ ~dec.err =>
            /\ SubSeq(out, 1, dec.given) =
                 WireOf([i \in DOMAIN dec.chunks |-> dec.chunks[i].frame])
            /\ \A i \in DOMAIN dec.chunks : dec.chunks[i].frame = frames[i]

\* The input ends one byte into the length of its second record.
C17_Witness ==
    /\ dec.done
    /\ dec.err
    /\ Len(frames) = 2
    /\ dec.given = 2 + Len(frames[1]) + 1

(***************************************************************************)
(* Container claims (checked under SpecOgg)                                *)
(*                                                                         *)
(* The fields of a page are read back from its bytes; byte k of the file   *)
(* format (counted from 0) is element k + 1 of the page.                   *)
(***************************************************************************)
PgFlags(p) == p[6]

PgGranule(p) ==
    p[7] + 256 * p[8] + 65536 * p[9] + 16777216 * (p[10] % 128)

PgSeq(p) == p[19] + 256 * p[20] + 65536 * p[21] + 16777216 * (p[22] % 128)

PgSegTable(p) == SubSeq(p, 28, 27 + p[27])

PgPayload(p) == SubSeq(p, 28 + p[27], Len(p))

PgPrefix(p, bytes) == SubSeq(PgPayload(p), 1, Len(bytes)) = bytes

\* C18: in a finished container exactly the first page has the
\* beginning-of-stream flag, exactly the last page has the end-of-stream
\* flag, the first page holds the identification segment, the second the
\* comment segment, and the pages are numbered 0, 1, 2, ...
C18_PageOrder ==
    ogPc = "done" =>
       /\ Len(oggPages) >= 2
       /\ \A k \in DOMAIN oggPages :
             /\ (PgFlags(oggPages[k]) \div 2) % 2 = 1 <=> k = 1
             /\ (PgFlags(oggPages[k]) \div 4) % 2 = 1 <=> k = Len(oggPages)
             /\ PgSeq(oggPages[k]) = k - 1
       /\ PgPrefix(oggPages[1], <<79, 112, 117, 115, 72, 101, 97, 100>>)
       /\ PgPrefix(oggPages[2], <<79, 112, 117, 115, 84, 97, 103, 115>>)

\* The frames of data page d of D, by position in the frame sequence.
C19_First(d) == 10 * (d - 1) + 1

C19_Last(d, D) == IF d < D THEN 10 * d ELSE Len(opusFrames)

RECURSIVE C20_XorInt(_, _)
C20_XorInt(x, y) ==
    IF x = 0 THEN y
    ELSE IF y = 0 THEN x
    ELSE ((x + y) % 2) + 2 * C20_XorInt(x \div 2, y \div 2)

\* One step of the reference: the register <<high half, low half>> takes
\* message bit m, shifts left by one, and has 0x04C1 1DB7 subtracted when
\* the bit shifted out differs from m.
C20_RefStep ==
    [reg \in (0..65535) \X (0..65535), m \in 0..1 |->
        LET hi == (2 * reg[1] + (reg[2] \div 32768)) % 65536
            lo == (2 * reg[2]) % 65536
        IN IF (reg[1] \div 32768 + m) % 2 = 1
             THEN <<C20_XorInt(hi, 1217), C20_XorInt(lo, 7607)>>
             ELSE <<hi, lo>>]

\* Bit k of the message, k = 0 being the highest bit of the first byte.
C20_MessageBit(data, k) == (data[(k \div 8) + 1] \div (2 ^ (7 - (k % 8)))) % 2

\* The register, starting from 0, after all bits of data: after[reg, lo, hi]
\* is reg after bits lo..hi (walked in halves, in order).
C20_Ref(data) ==
    LET n == 8 * Len(data)
        after[reg \in (0..65535) \X (0..65535), lo \in 0..n, hi \in -1..(n - 1)] ==
            IF lo > hi THEN reg
            ELSE IF lo = hi THEN C20_RefStep[reg, C20_MessageBit(data, lo)]
            ELSE after[after[reg, lo, (lo + hi) \div 2], ((lo + hi) \div 2) + 1, hi]
    IN after[<<0, 0>>, 0, n - 1]

C20_Stored(pg) == <<pg[25] + 256 * pg[26], pg[23] + 256 * pg[24]>>

C20_CrcOk(pg) ==
    C20_Stored(pg) =
        C20_Ref([i \in 1..Len(pg) |-> IF i \in 23..26 THEN 0 ELSE pg[i]])

\* C20: every page written carries in bytes 22..25, low byte first, the
\* non-reflected CRC-32 (polynomial 0x04C11DB7, initial value 0, no final
\* XOR) of the whole page with those four bytes zero, computed bit by bit;
\* pages already written do not change.
C20_Checksum ==
    [][\A k \in DOMAIN oggPages' :
          IF k <= Len(oggPages) THEN oggPages'[k] = oggPages[k]
          ELSE C20_CrcOk(oggPages'[k])]_vars

\* A container of four pages whose last page has a checksum with bits set
\* in its low and in its high byte.
C20_Witness ==
    /\ ogPc = "done"
    /\ Len(oggPages) = 4
    /\ oggPages[4][23] # 0
    /\ oggPages[4][26] # 0

(***************************************************************************)
(* Segment table claims (checked under SpecLacing)                         *)
(***************************************************************************)
\* The packets page k was written from.
C21_PagePackets(k) ==
    IF k = 1 THEN <<makeOpusHead(SampleRate, 1)>>
    ELSE IF k = 2 THEN <<makeOpusTags>>
    ELSE SubSeq(opusFrames, 10 * (k - 3) + 1,
                IF 10 * (k - 2) < Len(opusFrames) THEN 10 * (k - 2)
                ELSE Len(opusFrames))

\* floor(n/255) values of 255, then n mod 255
C21_Expected(n) ==
    [i \in 1..((n \div 255) + 1) |-> IF i <= n \div 255 THEN 255 ELSE n % 255]

RECURSIVE C21_ExpectedTable(_)
C21_ExpectedTable(packets) ==
    IF packets = <<>> THEN <<>>
    ELSE C21_Expected(Len(Head(packets))) \o C21_ExpectedTable(Tail(packets))

RECURSIVE C21_Sum(_)
C21_Sum(table) == IF table = <<>> THEN 0 ELSE Head(table) + C21_Sum(Tail(table))

\* A reader of the table: a packet ends at the first value below 255; acc is
\* the length collected for the packet being read.
RECURSIVE C21_Lengths(_, _)
C21_Lengths(table, acc) ==
    IF table = <<>> THEN <<>>
    ELSE IF Head(table) = 255 THEN C21_Lengths(Tail(table), acc + 255)
    ELSE <<acc + Head(table)>> \o C21_Lengths(Tail(table), 0)

RECURSIVE C21_Cut(_, _)
C21_Cut(payload, lens) ==
    IF lens = <<>> THEN <<>>
    ELSE <<SubSeq(payload, 1, Head(lens))>>
            \o C21_Cut(SubSeq(payload, Head(lens) + 1, Len(payload)), Tail(lens))

\* C21: on every page written, the segment table is, packet by packet,
\* floor(n/255) values of 255 followed by n mod 255 for a packet of n bytes
\* (a 0 when n is a multiple of 255, n = 0 included); the table ends with a
\* value below 255, its values sum to the payload length, and reading the
\* payload by the table gives back the packets the page was written from.
C21_Lacing ==
    \A k \in DOMAIN oggPages :
        LET pg == oggPages[k]
            table == PgSegTable(pg)
        IN /\ pg[27] = Len(table)
           /\ table = C21_ExpectedTable(C21_PagePackets(k))
           /\ table[Len(table)] < 255
           /\ C21_Sum(table) = Len(PgPayload(pg))
           /\ C21_Cut(PgPayload(pg), C21_Lengths(table, 0)) = C21_PagePackets(k)

\* A data page holding a packet of 510 bytes and an empty packet: 255, 255,
\* 0, 0.
C21_Witness ==
    /\ ogPc = "done"
    /\ Len(oggPages) = 3
    /\ Len(opusFrames) = 2
    /\ Len(opusFrames[1]) = 510
    /\ Len(opusFrames[2]) = 0
    /\ PgSegTable(oggPages[3]) = <<255, 255, 0, 0>>

(***************************************************************************)
(* Raw container claims (checked under SpecWav)                            *)
(***************************************************************************)
\* What a reader that follows ids and declared sizes finds from offset off:
\* "data" if a data chunk follows a format chunk, "none" if the chunks run
\* out first.  found tells whether a format chunk was passed already.
RECURSIVE C22_Find(_, _, _)
C22_Find(data, off, found) ==
    IF off + 8 > Len(data) THEN "none"
    ELSE LET id == SubSeq(data, off + 1, off + 4)
             next == off + 8 + Uint32At(data, off + 4)
         IN IF id = DataId /\ found THEN "data"
            ELSE C22_Find(data, next, found \/ id = FmtId)

\* C22: Decode, given a file with both markers, walks the chunks from
\* offset 12 by id and declared size and returns (it does not fault): it
\* returns an error when no data chunk follows a format chunk, and returns
\* samples only when one does.
C22_ChunkWalk ==
    (wavPc = "done" /\ Len(wavData) >= 44 /\ HasMagic(wavData)) =>
        /\ wavRet.kind \in {"ok", "err"}
        /\ C22_Find(wavData, 12, FALSE) = "none" => wavRet.kind = "err"
        /\ wavRet.kind = "ok" => C22_Find(wavData, 12, FALSE) = "data"

\* The format chunks of the file.
C23_FmtShapes ==
    {i \in DOMAIN wavShape.chunks : ChunkShapes[wavShape.chunks[i]].kind = "fmt"}

\* The file has one format chunk, all of it present, with a code other than 1.
C23_NotPCM ==
    /\ wavShape.hdr = "ok"
    /\ Cardinality(C23_FmtShapes) = 1
    /\ \A i \in C23_FmtShapes :
          /\ ChunkShapes[wavShape.chunks[i]].whole
          /\ ChunkShapes[wavShape.chunks[i]].format # 1

C24_AtData ==
    /\ wavPc = "done"
    /\ wavOff + 8 <= Len(wavData)
    /\ SubSeq(wavData, wavOff + 1, wavOff + 4) = DataId

\* C24: for a PCM file whose format chunk declares a bit depth other than
\* 16 or 32, or zero channels, Decode on reaching the data chunk returns an
\* error: no sample buffer and no runtime fault.
C24_DepthAndChannels ==
    (/\ C24_AtData
     /\ wavFmt.found
     /\ wavFmt.audioFormat = 1
     /\ wavFmt.bitsPerSample \notin {16, 32} \/ wavFmt.numChannels = 0)
        => wavRet.kind = "err"

\* k / 32768 with k the integer nearest to 32768 * s, kept in the int16 range
C25_Nearest(s) ==
    LET k == (2 * 32768 * s.num + s.den) \div (2 * s.den)
    IN IF k > 32767 THEN 32767 ELSE IF k < -32768 THEN -32768 ELSE k

C25_InRange(s) == s.num <= s.den /\ -s.den <= s.num

\* C25: for samples in [-1, 1], Decode(Encode(samples, 16000)) returns rate
\* 16000, as many samples as were given, and for each sample the 16-bit
\* value nearest to it; 100 samples of 0.5 come back as 100 values within
\* 1/32768 of 0.5.
C25_RoundTripNearest ==
    (/\ wavPc = "done"
     /\ wavShape.hdr = "encoded"
     /\ \A i \in DOMAIN wavIn : C25_InRange(wavIn[i]))
        => /\ wavRet.kind = "ok"
           /\ wavRet.rate = 16000
           /\ Len(wavRet.samples) = Len(wavIn)
           /\ \A i \in DOMAIN wavIn :
                 wavRet.samples[i] = [num |-> C25_Nearest(wavIn[i]), exp |-> 15]
           /\ wavIn = HalfSamples =>
                 \A i \in 1..100 :
                    /\ wavRet.samples[i].exp = 15
                    /\ wavRet.samples[i].num \in 16383..16385

\* The int16 written for sample i of the encoded file.
C26_Written(i) == Int16(Uint16At(wavData, 44 + 2 * (i - 1)))

C26_Kept(s, v) ==
    /\ v \in -32767..32767
    /\ s.num > 0 => v >= 0
    /\ s.num < 0 => v <= 0

\* C26: Encode and float32ToInt16 map every sample, those above 1 and below
\* -1 included, to an int16 in -32767..32767 whose sign is not opposite to
\* the sample's.
C26_NoWrap ==
    /\ wavPc = "converted" =>
          /\ Len(wavPcm16) = Len(wavIn)
          /\ \A i \in DOMAIN wavIn : C26_Kept(wavIn[i], wavPcm16[i])
    /\ (wavShape.hdr = "encoded" /\ wavPc \in {"decode", "walk", "done"}) =>
          /\ Len(wavData) = 44 + 2 * Len(wavIn)
          /\ \A i \in DOMAIN wavIn : C26_Kept(wavIn[i], C26_Written(i))

\* 2.0 and -1.125 encoded: 32767 and -32767 in the file.
C26_Witness ==
    /\ wavShape.hdr = "encoded"
    /\ wavPc = "done"
    /\ wavIn = <<[num |-> 16, den |-> 8], [num |-> -9, den |-> 8]>>
    /\ C26_Written(1) = 32767
    /\ C26_Written(2) = -32767

(***************************************************************************)
(* Upload of the container (checked under SpecOgg)                         *)
(***************************************************************************)
\* C27: the bytes of the container, uploaded under a name ending in .opus,
\* are decoded without error to the frames of the session, in order.
C27_ContainerAccepted ==
    ogPc = "uploaded" =>
        /\ ~oggUpload.err
        /\ [i \in DOMAIN oggUpload.chunks |-> oggUpload.chunks[i].frame]
              = opusFrames
        /\ oggUpload.rate = 16000

(***************************************************************************)
(* Request handler claims (checked under SpecHandler)                      *)
(***************************************************************************)
C28_Called(what) == \E i \in DOMAIN hTrace : hTrace[i] = what

\* "a.wav", "A.WAV"
C28_WavNames == {<<97, 46, 119, 97, 118>>, <<65, 46, 87, 65, 86>>}

\* "r.opus", "R.Opus"
C28_OpusNames == {<<114, 46, 111, 112, 117, 115>>, <<82, 46, 79, 112, 117, 115>>}

\* The handler read the upload and came to the choice of the decoder.
C28_UploadRead == hPc \in {"transcribe", "done"} /\ C28_Called("read") /\ ~hReq.file.readErr

\* C28: once the upload was read, a name ending in .wav in any letter case
\* sends it to DecodeWAV and to no other decoder, a name ending in .opus to
\* DecodeOpus and to no other; whatever the content, any other name is
\* answered 400 with no decoder and no engine called.
C28_SuffixDecides ==
    /\ C28_Called("DecodeWAV") => hReq.file.name \in C28_WavNames
    /\ C28_Called("DecodeOpus") => hReq.file.name \in C28_OpusNames
    /\ C28_UploadRead =>
          /\ hReq.file.name \in C28_WavNames => C28_Called("DecodeWAV")
          /\ hReq.file.name \in C28_OpusNames => C28_Called("DecodeOpus")
          /\ hReq.file.name \notin (C28_WavNames \cup C28_OpusNames) =>
                /\ hPc = "done"
                /\ hStatus = 400
                /\ hTrace = <<"form", "read">>

\* A WAV file uploaded as "a.ogg" is turned away after it was read.
C28_Witness ==
    /\ hPc = "done"
    /\ hReq.file.content = "wav"
    /\ hReq.file.name = <<97, 46, 111, 103, 103>>
    /\ hStatus = 400
    /\ hTrace = <<"form", "read">>

\* A POST to /transcribe of a server with a token, without the exact header.
C29_Unauthorized ==
    /\ hSrv.token = "s3"
    /\ hReq.path = "/transcribe"
    /\ hReq.method = "POST"
    /\ hReq.auth # "Bearer s3"

\* C29: with a token set, a POST to /transcribe whose Authorization header
\* is not exactly "Bearer <token>" is answered 401 and nothing else, and on
\* its way no upload is read, nothing is decoded and no engine is called;
\* /health is answered 200 whatever the header and the token.
C29_TokenGate ==
    /\ C29_Unauthorized =>
          /\ hTrace = <<>>
          /\ hT = "nil"
          /\ hPc \in {"route", "auth", "done"}
          /\ hPc = "done" => hStatus = 401
    /\ (hReq.path = "/health" /\ hPc = "done") => hStatus = 200 /\ hTrace = <<>>

\* A header that differs from the expected one in letter case only.
C29_Witness ==
    /\ hPc = "done"
    /\ hSrv.token = "s3"
    /\ hReq.auth = "bearer s3"
    /\ hReq.path = "/transcribe"
    /\ hReq.file.present
    /\ hStatus = 401

(***************************************************************************)
(* Client run claims (checked under SpecClient)                            *)
(***************************************************************************)
C30_At(what) == {i \in DOMAIN cLog : cLog[i] = what}

\* C30: the backup is written before the request is sent, it is removed
\* only after sendToServer returned a transcript, and whenever the client
\* reports a server error the backup file named in the message exists and
\* holds the whole recording.
C30_BackupKept ==
    /\ \A i \in C30_At("sendToServer") :
          \E j \in C30_At("WriteFile backup") : j < i
    /\ \A i \in C30_At("Remove backup") :
          /\ cSend \in {"text", "empty"}
          /\ \E j \in C30_At("sendToServer") : j < i
    /\ C30_At("Audio saved at backupPath") # {} => cFiles.backup = "whole"

(***************************************************************************)
(* Shared buffer claims (checked under SpecShared)                         *)
(***************************************************************************)
C31_InMethod(g) == spc[g] \notin {"idle", "Lock"}

C31_Exclusive ==
    \A g1 \in Goroutines, g2 \in Goroutines :
        g1 # g2 => ~(C31_InMethod(g1) /\ C31_InMethod(g2))

C31_WholeRecords ==
    \A i \in DOMAIN snaps :
        \E k \in 0..Len(frames) :
            IF snaps[i].kind = "wire"
              THEN snaps[i].wire = WireOf(SubSeq(frames, 1, k))
              ELSE snaps[i].packets = SubSeq(frames, 1, k)

C31_Growing ==
    /\ Len(frames') >= Len(frames)
    /\ SubSeq(frames', 1, Len(frames)) = frames

C31_UnderLock ==
    recorded' # recorded =>
        \/ rmu = {0} /\ rMain.pc = "take" /\ recorded' = <<>>
        \/ \E g \in DOMAIN rGo :
              /\ rmu = {g} /\ rGo[g].pc = "append"
              /\ recorded' = Append(recorded, rGo[g].chunk)

\* C31: the methods of one encoder exclude each other, so whatever Bytes
\* or OggBytes returned is made of whole records of a prefix of the frame
\* list, which only grows; and r.recorded changes only by an append or a
\* take-and-reset made by the goroutine holding r.mu.
C31_LockGuarded ==
    /\ [](C31_Exclusive /\ C31_WholeRecords)
    /\ [][C31_Growing /\ C31_UnderLock]_vars

\* a recording was taken by Stop, and a goroutine got the wire stream or
\* the container before the frames of another goroutine's call were added
C31_Witness ==
    /\ Len(rRet) = 1 /\ Len(rRet[1].samples) = 1
    /\ \E i \in DOMAIN snaps :
          /\ sop[3 - snaps[i].by].op.name \in {"Write", "Flush"}
          /\ Len(snaps[i].wire) + Len(snaps[i].packets) = 0
    /\ Len(frames) = 2
    /\ Bytes = WireOf(frames)

(***************************************************************************)
(* Recorder claims (checked under SpecRecorder and SpecContinuous)         *)
(***************************************************************************)
C32_AfterWait == rMain.pc \in {"lock", "take", "unlock", "reset", "idle"}

C32_Expected(e) == [i \in 1..(e.reads - e.mark) |-> e.mark + i]

\* C32: once Stop is past its wait every capture goroutine has exited and
\* nothing has panicked; each Stop returned exactly the chunks read since
\* its Start, in order; between cycles r.recorded is empty and r.done and
\* r.stopped hold two different open channels; and a Stop that waits
\* after its goroutine exited is let through.
C32_StartStopCycles ==
    /\ rMain.pc # "panic"
    /\ \A g \in DOMAIN rGo :
          /\ rGo[g].pc # "panic"
          /\ C32_AfterWait => rGo[g].pc = "exited"
          /\ g < Len(rGo) => rGo[g].pc = "exited"
    /\ \A k \in DOMAIN rRet : rRet[k].samples = C32_Expected(rRet[k])
    /\ rMain.pc = "idle" =>
          /\ recorded = <<>>
          /\ rmu = {}
          /\ rDone # rStopped
          /\ rDone \notin rClosed /\ rStopped \notin rClosed
    /\ (rMain.pc = "wait" /\ rGo[Len(rGo)].pc = "exited") => Received(rStopped)

\* two cycles, each returning chunks, the second only its own
C32_Witness ==
    /\ Len(rRet) = 2
    /\ Len(rRet[1].samples) >= 1
    /\ Len(rRet[2].samples) >= 1
    /\ rRet[2].samples[1] = Len(rRet[1].samples) + 1
    /\ rMain.pc = "idle"

RECURSIVE C33_Concat(_)
C33_Concat(segments) ==
    IF segments = <<>> THEN <<>>
    ELSE Head(segments) \o C33_Concat(Tail(segments))

\* the requested duration's worth of samples, times 1000
C33_Requested == rCfg.ms * rCfg.sampleRate

C33_NoneLost ==
    C33_Concat(rRecv.got) = [i \in 1..(rReads - rMain.mark) |-> rMain.mark + i]

C33_FullSegments ==
    \A i \in 1..(Len(rRecv.got) - 1) :
        Len(rRecv.got[i]) * rCfg.chunkSize * 1000 >= C33_Requested

\* C33: when the consumer has seen the channel closed, the segments it
\* received, joined in order, are the chunks read since StartContinuous,
\* and every segment but the last holds at least the requested duration's
\* worth of samples.
C33_SegmentsCoverStream ==
    rRecv.sawClose => C33_NoneLost /\ C33_FullSegments

(***************************************************************************)
(* Serving layer progress (checked under SpecServeFair)                    *)
(***************************************************************************)
C34_HoldsSlotLock(r) == \E s \in Slots : lmu[s] = r

C34_Released ==
    \A r \in Reqs :
        pc[r] \in {"idle", "lock", "call", "infer", "done"} => ~C34_HoldsSlotLock(r)

\* a request never goes back from "done" or to "idle", so this says that
\* every request that arrived reaches "done"
C34_Returns == []<>(\A r \in Reqs : pc[r] \in {"idle", "done"})

\* C34: a request holds a loader mutex only between its l.mu.Lock() and
\* the t := l.loaded of the lazy Transcribe: not after any return, and not
\* while it waits for or holds the handle's inference mutex; and every
\* request that entered a lazy Transcribe returns from it.
C34_NoDeadlock == []C34_Released /\ C34_Returns

\* every request has returned, among them one whose population failed and
\* one that ran its inference on the same slot after a retry
C34_Witness ==
    /\ \A r \in Reqs : pc[r] = "done"
    /\ \E s \in Slots : fails[s] >= 1 /\ stores[s] >= 1
    /\ \E r \in Reqs : result[r] = "err"
    /\ \E r \in Reqs : result[r] = "ok"

(***************************************************************************)
(* Handler claims on rejected and empty uploads (checked under SpecHandler)*)
(***************************************************************************)
C35_Engine == IF hReq.engine = "" THEN hSrv.defaultEng ELSE hReq.engine

C35_Lang == IF hReq.lang = "" THEN hSrv.defaultLang ELSE hReq.lang

\* the request got past the method and token checks
C35_Admitted ==
    /\ hReq.path = "/transcribe" /\ hReq.method = "POST"
    /\ hSrv.token = "" \/ hReq.auth = "Bearer " \o hSrv.token

C35_Rejected ==
    \/ C35_Engine \notin {"parakeet", "moonshine"}
    \/ C35_Engine = "moonshine" /\ C35_Lang \notin {"es", "en"}
    \/ ~hReq.file.present
    \/ hAudio.err

\* C35: an admitted request with an unknown engine, an unknown Moonshine
\* language, no audio part or an upload its decoder refused ends with a
\* 4xx status and without a call of t.Transcribe; and t.Transcribe, where
\* a slot is populated and the engine run, is called only after a decoder
\* returned samples without error.
C35_RejectedBeforeEngine ==
    /\ (C35_Admitted /\ C35_Rejected) =>
          /\ ~C28_Called("Transcribe")
          /\ hPc # "transcribe"
          /\ hPc \in {"done", "panic"} => hStatus \in 400..499
    /\ (C28_Called("Transcribe") \/ hPc = "transcribe") =>
          /\ ~hAudio.err
          /\ C28_Called("DecodeWAV") \/ C28_Called("DecodeOpus")

\* a Moonshine request in an unregistered language was answered 400, and
\* so was one whose Opus upload the decoder refused
C35_Witness ==
    /\ C35_Admitted /\ hPc = "done" /\ hStatus = 400
    /\ \/ C35_Engine = "moonshine" /\ C35_Lang = "fr" /\ hTrace = <<>>
       \/ hAudio.err /\ C28_Called("DecodeOpus")

\* C36: when the upload decoded without error to zero samples and
\* t.Transcribe was called, the handler ends with a status written, not
\* with a runtime fault.
C36_EmptyUploadAnswered ==
    (C28_Called("Transcribe") /\ ~hAudio.err /\ hAudio.n = 0) =>
        hPc = "done" /\ hStatus # 0

(***************************************************************************)
(* A failed encode in Write or Flush (checked under SpecCodec)             *)
(***************************************************************************)
C37_Samples(s) == {s[i] : i \in DOMAIN s}

\* the input samples that some emitted frame was made from
C37_Encoded == UNION {C37_Samples(pcmLog[k]) : k \in DOMAIN pcmLog} \ {0}

\* the input samples that are neither encoded nor buffered
C37_Lost == (1..fed) \ (C37_Encoded \cup C37_Samples(buf))

\* the call of this step returned an error
C37_FailStep ==
    /\ Len(hist') = Len(hist) + 1
    /\ ~hist'[Len(hist')].ok

\* the buffer the call of this step worked on
C37_Pending == buf \o [i \in 1..(fed' - fed) |-> fed + i]

\* the frames the call of this step emitted before its encode failed
C37_Emitted == Len(frames') - Len(frames)

\* the samples of the frame whose encode failed, pending being C37_Pending
C37_FailedFrame(pending) ==
    IF hist'[Len(hist')].op = "write"
    THEN C37_Samples(SubSeq(pending, 320 * C37_Emitted + 1,
                            320 * C37_Emitted + 320))
    ELSE C37_Samples(SubSeq(buf, 1, IF Len(buf) < 320 THEN Len(buf) ELSE 320))

\* What a call that failed leaves behind.
C37_AfterFailure ==
    LET pending == C37_Pending
        failed == C37_FailedFrame(pending)
    IN /\ Bytes' = WireOf(frames')
       /\ Len(pcmLog') = Len(frames')
       /\ SubSeq(frames', 1, Len(frames)) = frames
       /\ hist'[Len(hist')].op = "flush" => frames' = frames /\ out' = out
       /\ pcmLog' = pcmLog \o
             [k \in 1..C37_Emitted |->
                SubSeq(pending, 320 * (k - 1) + 1, 320 * k)]
       /\ failed # {}
       /\ failed \subseteq 1..fed'
       /\ failed \cap C37_Samples(buf') = {}
       /\ failed \cap C37_Encoded' = {}

\* No step takes a sample out of C37_Lost: the frames a step emits and the
\* buffer it leaves hold, of the samples written before the step, only
\* samples that were in the buffer.
C37_NoneRevived ==
    LET held == C37_Samples(buf)
    IN /\ SubSeq(pcmLog', 1, Len(pcmLog)) = pcmLog
       /\ \A k \in (Len(pcmLog) + 1)..Len(pcmLog') :
             C37_Samples(pcmLog'[k]) \cap (1..fed) \subseteq held
       /\ C37_Samples(buf') \cap (1..fed) \subseteq held

\* C37: a Write or Flush whose encode fails returns an error and adds no
\* record for the failed frame to the wire stream or to the frame list
\* (Write keeps the records of the frames it emitted before the failure,
\* Flush adds nothing), so the wire stream is still the serialisation of
\* the frame list; the samples of the failed frame are then in the buffer
\* no more and in no frame (they are in C37_Lost), and no later call
\* encodes or buffers a sample that was once dropped.
C37_FailedFrameDropped ==
    /\ [][C37_FailStep => C37_AfterFailure]_vars
    /\ [][C37_NoneRevived]_vars

\* A Write of 640 samples emitted one frame and failed on the second, then
\* a Write of 320 samples emitted a frame: samples 321..640 are in no frame
\* and not in the buffer.
C37_Witness ==
    /\ Len(hist) = 2
    /\ hist[1] = [op |-> "write", n |-> 640, ok |-> FALSE]
    /\ hist[2] = [op |-> "write", n |-> 320, ok |-> TRUE]
    /\ Len(frames) = 2
    /\ pcmLog[2][1] = 641
    /\ buf = <<>>
    /\ C37_Lost = 321..640

(***************************************************************************)
(* StopContinuous and a consumer that stopped (checked under               *)
(* SpecContinuousFair)                                                     *)
(***************************************************************************)
\* C38: once StopContinuous has closed r.done and waits for r.stopped, it
\* eventually returns, whether or not the consumer still receives from the
\* segment channel.
C38_StopContinuousReturns ==
    (rMain.pc = "waitContinuous") ~> (rMain.pc = "idle")

(***************************************************************************)
(* Tokens per step (checked under SpecDecode)                              *)
(***************************************************************************)
\* an iteration of the loop of decodeTDT began in this step
C39_Iteration == steps' = steps + 1

\* C39: every iteration of the loop appends at most one token and nothing
\* else appends one, so a run never holds more tokens than it took steps,
\* and it takes at most encodedLen steps; every token held or returned is
\* an index in 0..VocabSize-1 other than the blank index.
C39_TokensBounded ==
    /\ [](/\ Len(tokens) <= steps
          /\ steps <= encodedLen
          /\ \A i \in DOMAIN tokens :
                tokens[i] \in 0..(VocabSize - 1) /\ tokens[i] # blankIdx
          /\ \A i \in DOMAIN ret.tokens :
                ret.tokens[i] \in 0..(VocabSize - 1) /\ ret.tokens[i] # blankIdx
          /\ Len(ret.tokens) <= steps)
    /\ [][/\ Len(tokens') <= Len(tokens) + 1
           /\ SubSeq(tokens', 1, Len(tokens)) = tokens
           /\ tokens' # tokens => C39_Iteration]_vars

\* A run over MaxLen frames that accepted a token in every step, and one
\* of the tokens is the last index of the vocabulary.
C39_Witness ==
    /\ dpc = "done"
    /\ encodedLen = MaxLen
    /\ steps = MaxLen
    /\ ret.tokens = tokens
    /\ Len(tokens) = MaxLen
    /\ \E i \in DOMAIN tokens : tokens[i] = VocabSize - 1

(***************************************************************************)
(* The segment count of a page (checked under SpecLacing)                  *)
(***************************************************************************)
\* the lacing values of a list of packets: floor(n/255) + 1 for each
RECURSIVE C40_Values(_)
C40_Values(packets) ==
    IF packets = <<>> THEN 0
    ELSE (Len(Head(packets)) \div 255) + 1 + C40_Values(Tail(packets))

RECURSIVE C40_PayloadLen(_)
C40_PayloadLen(packets) ==
    IF packets = <<>> THEN 0
    ELSE Len(Head(packets)) + C40_PayloadLen(Tail(packets))

\* C40: every page written holds at most 10 frames; with frames of at most
\* maxFrameBytes bytes its lacing values number at most 50, so the count
\* byte at offset 26 is that number itself, not its remainder modulo 256,
\* and the page is the 27 header bytes, as many table bytes as the count
\* says, and the payload.
C40_CountFits ==
    \A k \in DOMAIN oggPages :
        LET pg == oggPages[k]
            packets == C21_PagePackets(k)
            count == C40_Values(packets)
        IN /\ Len(packets) <= 10
           /\ (\A i \in DOMAIN packets : Len(packets[i]) <= maxFrameBytes)
                 => count <= 50
           /\ count < 256
           /\ pg[27] = count
           /\ Len(pg) = 27 + count + C40_PayloadLen(packets)
           /\ Len(PgSegTable(pg)) = count

\* A page of 10 frames of maxFrameBytes bytes: 50 lacing values.
C40_Witness ==
    /\ ogPc = "done"
    /\ Len(opusFrames) = 11
    /\ \A i \in DOMAIN opusFrames : Len(opusFrames[i]) = maxFrameBytes
    /\ Len(oggPages) = 4
    /\ oggPages[3][27] = 50
    /\ oggPages[4][27] = 5

====
